---------------------------- MODULE Spec2Model ----------------------------
(***************************************************************************)
(* A model of the libvips image compressor of thinpic_flutter              *)
(* (src/main/cpp/image_compressor.c and vips_smart_wrapper.c).             *)
(*                                                                         *)
(* Every thread is a caller of the C entry points.  A call is a sequence   *)
(* of steps: argument validation, ensure_vips_initialized, the lock of     *)
(* vips_mutex, and then the codec operations (decode, resize, sRGB copy,   *)
(* encode) that the entry point performs before it unlocks and returns.    *)
(* The codec itself (libvips) is the environment: each codec operation     *)
(* succeeds or fails, a decode yields the image's dimensions and an        *)
(* encode yields a buffer size, all chosen nondeterministically.           *)
(*                                                                         *)
(* Numbers: C doubles are modelled by exact rationals [n, d] and the       *)
(* conversions (int)(x) by integer division; the comments at each          *)
(* operator say why this agrees with the IEEE arithmetic of the code on    *)
(* the values the model draws.                                             *)
(***************************************************************************)
EXTENDS Integers, Sequences, FiniteSets, TLC

---------------------------------------------------------------------------
(* Bounds of the model *)

\* number of concurrently calling threads
NumThreads == 2

\* target sizes (KB) handed to the target-size search range over 1..MaxTargetKB
MaxTargetKB == 6

\* encoder output sizes range up to MaxSizeKB kilobytes (and 1023 bytes)
MaxSizeKB == 8

Threads == 1..NumThreads

---------------------------------------------------------------------------
(* Program constants *)

FORMAT_JPEG == 0
FORMAT_PNG == 1
FORMAT_WEBP == 2
FORMAT_TIFF == 3
FORMAT_HEIF == 4
FORMAT_JP2K == 5
FORMAT_JXL == 6
FORMAT_GIF == 7
FORMAT_AUTO == 8

\* const int max_dimension = 6000 of every entry point but fast_webp_compress
max_dimension == 6000

\* const int max_dimension = 8000 of fast_webp_compress
fast_max_dimension == 8000

\* int end_quality = 40; int quality_step = 3 of smart_compress_image
end_quality == 40
quality_step == 3

\* vips_smart_wrapper.c
LOW_MAX_KB == 800
HIGH_MAX_KB == 2000
high_quality_start == 93
low_quality_start == 85
min_quality == 40
w_quality_step == 3

---------------------------------------------------------------------------
(* Values *)

NULL == "NULL"

\* what vips_image_new_from_file returns when the decode fails
NullImage == [width |-> -1, height |-> -1, bands |-> -1]

\* CompressedImageResult result = {NULL, 0, -1}
FailResult == [data |-> NULL, length |-> 0, success |-> -1]

\* result.data = buffer; result.length = buffer_size; result.success = 1
OkResult(size) == [data |-> "buffer", length |-> size, success |-> 1]

\* a double held exactly: the rational n/d
Ratio(n, d) == [n |-> n, d |-> d]

RatioLess(a, b) == a.n * b.d < b.n * a.d

RatioEq(a, b) == a.n * b.d = b.n * a.d

Max(a, b) == IF a > b THEN a ELSE b

Min(a, b) == IF a < b THEN a ELSE b

\* (int)(x * s) for a double s = (double)n / d.  The product of x and the
\* rounded quotient is floor(x*n/d) whenever x*n/d is no integer (on the
\* dimensions drawn here the rounding error is far below 1/d); when x*n/d is
\* an integer the rounded product may fall just below it and truncate to one
\* less (49 * (1.0/49) is 0.9999999999999999), so both outcomes are kept.
DoubleMulTrunc(x, s) ==
    LET q == (x * s.n) \div s.d
    IN  IF (x * s.n) % s.d = 0 /\ q >= 1 THEN {q, q - 1} ELSE {q}

---------------------------------------------------------------------------
(* Entry points *)

\* entry points that run one decode -> resize -> sRGB -> encode pass
SinglePassFns ==
    { "compress_image", "compress_image_with_format",
      "compress_image_with_size", "compress_image_with_size_and_format",
      "compress_large_image", "compress_large_dslr_image",
      "compress_large_image_with_format",
      "compress_large_dslr_image_with_format",
      "smart_compress_image_with_format", "fast_webp_compress" }

\* entry points that take an ImageFormat
FormatFns ==
    { "compress_image_with_format", "compress_image_with_size_and_format",
      "compress_large_image_with_format",
      "compress_large_dslr_image_with_format",
      "smart_compress_image_with_format" }

\* entry points that reject a NULL or empty input_path
PathCheckFns ==
    { "compress_image", "compress_image_with_format",
      "compress_image_with_size", "compress_image_with_size_and_format",
      "smart_compress_image", "auto_compress_image", "fast_webp_compress",
      "get_image_info" }

\* entry points that reject a quality outside 1..100
QualityCheckFns ==
    { "compress_image", "compress_image_with_format",
      "compress_image_with_size", "compress_image_with_size_and_format",
      "auto_compress_image", "fast_webp_compress" }

\* entry points that fopen() the path before touching the codec
FopenFns ==
    { "compress_image", "compress_image_with_format",
      "compress_image_with_size", "compress_image_with_size_and_format",
      "smart_compress_image", "get_image_info" }

\* entry points that reject width <= 0 || height <= 0 || bands <= 0
DimCheckFns ==
    { "compress_image", "compress_image_with_format",
      "compress_image_with_size", "compress_image_with_size_and_format",
      "auto_compress_image", "fast_webp_compress" }

\* entry points whose first encode failure is followed by a second,
\* plain vips_jpegsave_buffer at the same quality
RetryFns == { "compress_image", "compress_image_with_size" }

\* entry points that skip the GIF encoder when final_bands < 3
GifGuardFns == { "compress_image_with_size_and_format", "auto_compress_image" }

\* the paths of the model: NULL, the empty string, a path with no file
\* behind it, and a readable image file
ValidPath == "photo.jpg"

MissingPath == "missing.jpg"

\* a second readable image file, with an extension in capitals
HeicPath == "photo.HEIC"

\* the paths behind which there is an image file that can be opened
Readable(path) == path \in {ValidPath, HeicPath}

\* C strings are sequences of characters; a const char* is a record that
\* says whether the pointer is NULL and, if not, holds the string
CStr(chars) == [null |-> FALSE, chars |-> chars]

NullStr == [null |-> TRUE, chars |-> << >>]

UpperChars ==
    << "A", "B", "C", "D", "E", "F", "G", "H", "I", "J", "K", "L", "M",
       "N", "O", "P", "Q", "R", "S", "T", "U", "V", "W", "X", "Y", "Z" >>

LowerChars ==
    << "a", "b", "c", "d", "e", "f", "g", "h", "i", "j", "k", "l", "m",
       "n", "o", "p", "q", "r", "s", "t", "u", "v", "w", "x", "y", "z" >>

\* the extension compared as it stands: no conversion to lowercase
ToLower_Identity(c) == c

\* (ext[i] >= 'A' && ext[i] <= 'Z') ? ext[i] + 32 : ext[i]
ToLower(c) ==
    IF \E k \in 1..Len(UpperChars) : UpperChars[k] = c
    THEN LowerChars[CHOOSE k \in 1..Len(UpperChars) : UpperChars[k] = c]
    ELSE c

\* strrchr(input_path, '.'): the index of the last '.', 0 when there is none
LastDot(chars) ==
    IF \E i \in 1..Len(chars) : chars[i] = "."
    THEN CHOOSE i \in 1..Len(chars) :
           /\ chars[i] = "."
           /\ \A j \in (i + 1)..Len(chars) : chars[j] # "."
    ELSE 0

\* ext++; while (ext[i] && i < 9) lower_ext[i] = lowercase of ext[i]: the
\* text after the last dot, at most 9 characters of it, in lowercase
LowerExt(chars) ==
    LET ext == SubSeq(chars, LastDot(chars) + 1, Len(chars))
    IN  [i \in 1..Min(Len(ext), 9) |-> ToLower(ext[i])]

\* if (!input_path) return FORMAT_JPEG; if (!ext) return FORMAT_JPEG; the
\* strcmp chain over lower_ext; return FORMAT_JPEG
detect_format_from_path(input_path) ==
    IF input_path.null THEN FORMAT_JPEG
    ELSE IF LastDot(input_path.chars) = 0 THEN FORMAT_JPEG
    ELSE LET lower_ext == LowerExt(input_path.chars)
         IN  CASE lower_ext \in {<<"j", "p", "g">>, <<"j", "p", "e", "g">>} -> FORMAT_JPEG
               [] lower_ext = <<"p", "n", "g">> -> FORMAT_PNG
               [] lower_ext = <<"w", "e", "b", "p">> -> FORMAT_WEBP
               [] lower_ext \in {<<"t", "i", "f", "f">>, <<"t", "i", "f">>} -> FORMAT_TIFF
               [] lower_ext \in {<<"h", "e", "i", "f">>, <<"h", "e", "i", "c">>} -> FORMAT_HEIF
               [] lower_ext \in {<<"j", "p", "2">>, <<"j", "2", "k">>} -> FORMAT_JP2K
               [] lower_ext = <<"j", "x", "l">> -> FORMAT_JXL
               [] lower_ext = <<"g", "i", "f">> -> FORMAT_GIF
               [] OTHER -> FORMAT_JPEG

\* the C string behind each path of the model
PathString(path) ==
    CASE path = NULL -> NullStr
      [] path = ValidPath -> CStr(<<"p", "h", "o", "t", "o", ".", "j", "p", "g">>)
      [] path = MissingPath -> CStr(<<"m", "i", "s", "s", "i", "n", "g", ".", "j", "p", "g">>)
      [] path = HeicPath -> CStr(<<"p", "h", "o", "t", "o", ".", "H", "E", "I", "C">>)
      [] OTHER -> CStr(<< >>)

\* the checks an entry point makes before ensure_vips_initialized; TRUE when
\* the call goes on
Validate(f, a) ==
    /\ f \in PathCheckFns => a.path \notin {NULL, ""}
    /\ f \in QualityCheckFns => (a.quality >= 1 /\ a.quality <= 100)
    /\ f = "smart_compress_image" => a.target_kb > 0
    /\ f \in FopenFns => a.path # MissingPath

\* FORMAT_AUTO handed on as it is
ResolveFormat_KeepAuto(f, a) ==
    IF f \in FormatFns THEN a.format
    ELSE IF f = "fast_webp_compress" THEN FORMAT_WEBP ELSE FORMAT_JPEG

\* if (format == FORMAT_AUTO) format = detect_format_from_path(input_path)
ResolveFormat(f, a) ==
    IF f \in FormatFns
    THEN IF a.format = FORMAT_AUTO
         THEN detect_format_from_path(PathString(a.path))
         ELSE a.format
    ELSE IF f = "fast_webp_compress" THEN FORMAT_WEBP ELSE FORMAT_JPEG

---------------------------------------------------------------------------
(* Sizing policy.  A plan is what an entry point computes between the       *)
(* decode and the resize: needs_resize, the scale it hands to vips_resize   *)
(* and, where the code computes them, new_width and new_height.             *)

\* a double that is the square root of the rational n/d
SqrtRatio(n, d) == [n |-> n, d |-> d, root |-> 2]

Plan(nr, s, nw, nh) ==
    [needs_resize |-> nr, scale |-> s, new_width |-> nw, new_height |-> nh]

\* int new_width = width; int new_height = height; int needs_resize = 0;
\* double scale = 1.0
NoResizePlan(width, height) == Plan(0, Ratio(1, 1), width, height)

\* the operands exchanged: width * max_dimension / height
CapNewHeight_Swapped(width, height) == (width * max_dimension) \div height

\* new_height = (int)((double)height * max_dimension / width): height * 6000
\* is exact in a double and the quotient is at least 1/width away from the
\* next integer, so the conversion is the integer quotient
CapNewHeight(width, height) == (height * max_dimension) \div width

CapNewWidth(width, height) == (width * max_dimension) \div height

\* the cap applied from 6000 on instead of above 6000
CapPlan_AtLeast(width, height) ==
    IF width >= max_dimension \/ height >= max_dimension
    THEN IF width > height
         THEN [needs_resize |-> 1,
               scale |-> [n |-> max_dimension, d |-> width],
               new_width |-> max_dimension,
               new_height |-> (height * max_dimension) \div width]
         ELSE [needs_resize |-> 1,
               scale |-> [n |-> max_dimension, d |-> height],
               new_width |-> (width * max_dimension) \div height,
               new_height |-> max_dimension]
    ELSE [needs_resize |-> 0, scale |-> [n |-> 1, d |-> 1],
          new_width |-> width, new_height |-> height]

\* compress_image: resize if largest dimension > 6000px
CapPlan(width, height) ==
    IF width > max_dimension \/ height > max_dimension
    THEN IF width > height
         THEN Plan(1, Ratio(max_dimension, width),
                   max_dimension, CapNewHeight(width, height))
         ELSE Plan(1, Ratio(max_dimension, height),
                   CapNewWidth(width, height), max_dimension)
    ELSE NoResizePlan(width, height)

\* no image ever resized for want of target dimensions
SizeCapPlans_Never(width, height) == { NoResizePlan(width, height) }

\* compress_image_with_size, no target dimensions provided: "use original
\* logic for large images", scale = (double)max_dimension / width and the
\* other dimension (int)(dimension * scale)
SizeCapPlans(width, height) ==
    IF width > max_dimension \/ height > max_dimension
    THEN IF width > height
         THEN { Plan(1, Ratio(max_dimension, width), max_dimension, nh) :
                  nh \in DoubleMulTrunc(height, Ratio(max_dimension, width)) }
         ELSE { Plan(1, Ratio(max_dimension, height), nw, max_dimension) :
                  nw \in DoubleMulTrunc(width, Ratio(max_dimension, height)) }
    ELSE { NoResizePlan(width, height) }

\* compress_image_with_size: target dimensions, else the 6000 cap; the
\* other dimension is (int)(dimension * scale)
SizePlans(width, height, tw, th) ==
    IF tw > 0 \/ th > 0
    THEN IF tw > 0 /\ th > 0
         THEN LET scale_width == Ratio(tw, width)
                  scale_height == Ratio(th, height)
              IN  IF RatioLess(scale_width, scale_height)
                  THEN { Plan(1, scale_width, tw, nh) :
                           nh \in DoubleMulTrunc(height, scale_width) }
                  ELSE { Plan(1, scale_height, nw, th) :
                           nw \in DoubleMulTrunc(width, scale_height) }
         ELSE IF tw > 0
              THEN { Plan(1, Ratio(tw, width), tw, nh) :
                       nh \in DoubleMulTrunc(height, Ratio(tw, width)) }
              ELSE { Plan(1, Ratio(th, height), nw, th) :
                       nw \in DoubleMulTrunc(width, Ratio(th, height)) }
    ELSE SizeCapPlans(width, height)

\* compress_image_with_size_and_format: the new dimensions first, then
\* double scale = (double)new_width / width
SizeFormatPlans(width, height, tw, th) ==
    LET Dims ==
          IF tw > 0 /\ th > 0
          THEN LET scale_x == Ratio(tw, width)
                   scale_y == Ratio(th, height)
                   scale == IF RatioLess(scale_x, scale_y) THEN scale_x
                            ELSE scale_y
               IN  { <<1, nw, nh>> : nw \in DoubleMulTrunc(width, scale),
                                     nh \in DoubleMulTrunc(height, scale) }
          ELSE IF tw > 0
          THEN { <<1, tw, nh>> :
                   nh \in DoubleMulTrunc(height, Ratio(tw, width)) }
          ELSE IF th > 0
          THEN { <<1, nw, th>> :
                   nw \in DoubleMulTrunc(width, Ratio(th, height)) }
          ELSE LET p == CapPlan(width, height)
               IN  { <<p.needs_resize, p.new_width, p.new_height>> }
    IN  { Plan(d[1], IF d[1] = 1 THEN Ratio(d[2], width) ELSE Ratio(1, 1),
               d[2], d[3]) : d \in Dims }

\* compress_large_image and its three siblings: always resized, by
\* max_dimension over the larger side; no new_width, new_height there
LargePlan(width, height) ==
    Plan(1, IF width > height THEN Ratio(max_dimension, width)
            ELSE Ratio(max_dimension, height), width, height)

\* fast_webp_compress: the cap is 8000 and no new dimensions are computed
FastPlan(width, height) ==
    IF width > fast_max_dimension \/ height > fast_max_dimension
    THEN Plan(1, IF width > height THEN Ratio(fast_max_dimension, width)
                 ELSE Ratio(fast_max_dimension, height), width, height)
    ELSE NoResizePlan(width, height)

\* smart_compress_image_with_format: estimated_size = width * height * 3;
\* scale = fmax(0.1, fmin(1.0, sqrt(target_kb * 1024 / estimated_size)))
SmartFormatPlan(width, height, target_kb) ==
    LET estimated_size == width * height * 3
    IN  IF target_kb > 0 /\ estimated_size > target_kb * 1024
        THEN Plan(1, IF 100 * target_kb * 1024 < estimated_size
                     THEN Ratio(1, 10)
                     ELSE SqrtRatio(target_kb * 1024, estimated_size),
                  width, height)
        ELSE NoResizePlan(width, height)

\* the plans of entry point f for a decoded width x height image
Plans(f, a, width, height) ==
    CASE f \in {"compress_image", "compress_image_with_format",
                "auto_compress_image"} ->
           { CapPlan(width, height) }
      [] f = "compress_image_with_size" ->
           SizePlans(width, height, a.target_width, a.target_height)
      [] f = "compress_image_with_size_and_format" ->
           SizeFormatPlans(width, height, a.target_width, a.target_height)
      [] f \in {"compress_large_image", "compress_large_dslr_image",
                "compress_large_image_with_format",
                "compress_large_dslr_image_with_format"} ->
           { LargePlan(width, height) }
      [] f = "fast_webp_compress" -> { FastPlan(width, height) }
      [] f = "smart_compress_image_with_format" ->
           { SmartFormatPlan(width, height, a.target_kb) }
      [] OTHER -> { NoResizePlan(width, height) }

\* the quality an entry point encodes with: the caller's, or the one
\* smart_compress_image_with_format picks from type
TargetQuality(type) ==
    CASE type = 0 -> 85
      [] type = 1 -> 95
      [] type = 2 -> 60
      [] type = 3 -> 30
      [] OTHER -> 85

FinalQuality(f, a) ==
    IF f = "smart_compress_image_with_format" THEN TargetQuality(a.type)
    ELSE a.quality

\* the quotient rounded to the nearest integer instead of truncated
PngLevelInverted_Rounded(quality) ==
    Max(0, Min(9, 9 - ((2 * quality * 9 + 100) \div 200)))

\* int png_quality = 9 - ((quality * 9) / 100), clamped to 0..9
PngLevelInverted(quality) == Max(0, Min(9, 9 - ((quality * 9) \div 100)))

\* int png_quality = (quality * 9) / 100, clamped to 0..9
PngLevelDirect(quality) == Max(0, Min(9, (quality * 9) \div 100))

PngLevel(f, quality) ==
    IF f \in {"compress_image_with_format",
              "compress_image_with_size_and_format", "auto_compress_image"}
    THEN PngLevelInverted(quality)
    ELSE PngLevelDirect(quality)

---------------------------------------------------------------------------
(* State *)

VARIABLES
    pc,                \* per thread: where its call stands
    fn,                \* per thread: the entry point it is in ("none" when idle)
    arg,               \* per thread: the arguments of the call
    loc,               \* per thread: the locals of the call
    result,            \* per thread: the value the call returned
    vips_mutex,        \* static pthread_mutex_t vips_mutex: 0 or its holder
    vips_initialized,  \* static int vips_initialized
    h                  \* per thread: what the call has done so far (history)

vars == <<pc, fn, arg, loc, result, vips_mutex, vips_initialized, h>>

NoArg ==
    [path |-> NULL, output_path |-> NULL, quality |-> 0, target_kb |-> 0,
     type |-> 0, target_width |-> 0, target_height |-> 0, format |-> 0,
     raw_data |-> NULL, width |-> 0, height |-> 0, channels |-> 0]

\* VipsImage* image = NULL; void* buffer = NULL; ...
NoLoc ==
    [width |-> 0, height |-> 0, bands |-> 0, needs_resize |-> 0,
     scale |-> Ratio(1, 1), new_width |-> 0, new_height |-> 0,
     quality |-> 0, format |-> 0, i |-> 0, best_size |-> 0,
     buffer |-> 0, best_data |-> 0, file_size |-> 0,
     png_buffer |-> [data |-> << >>, size |-> 0, capacity |-> 0],
     png_calls |-> 0, png_length |-> 0]

\* history of one call: the trials of the search (their number, their
\* qualities in order, the quality of the first trial whose size was in the
\* band), the codec operations done, what the last encoder call was given,
\* the formats auto_compress_image has visited, the smallest successful
\* encode so far and the iteration that first produced it, and the encoded
\* buffers: those allocated and not freed, the most there ever were at once,
\* and whether one was freed twice; and the image handles of the call: the
\* reference count of each, in the order of their creation, and whether a
\* handle was unreferenced that had no reference left
NoHist ==
    [trials |-> 0, tried |-> << >>, firstIn |-> 0,
     loads |-> 0, resizes |-> 0, copies |-> 0, encodes |-> 0,
     resized |-> FALSE, rscale |-> Ratio(1, 1), srgb |-> FALSE,
     encFmt |-> -1, encQ |-> -1, encLevel |-> -1, encSize |-> 0,
     visited |-> << >>, minOk |-> 0, minId |-> 0,
     live |-> {}, maxLive |-> 0, doubleFree |-> FALSE,
     refs |-> << >>, badUnref |-> FALSE]

\* nothing returned yet
NoResult == [data |-> NULL, length |-> 0, success |-> 0]

Init ==
    /\ pc = [t \in Threads |-> "idle"]
    /\ fn = [t \in Threads |-> "none"]
    /\ arg = [t \in Threads |-> NoArg]
    /\ loc = [t \in Threads |-> NoLoc]
    /\ result = [t \in Threads |-> NoResult]
    /\ vips_mutex = 0
    /\ vips_initialized = 0
    /\ h = [t \in Threads |-> NoHist]

---------------------------------------------------------------------------
(* Call, initialization, lock *)

\* the entry points of "image_compressor copy.c", the aggressive policy,
\* which share their names with entry points of image_compressor.c
AggrCompressImage == "copy.compress_image"

AggrLargeImage == "copy.compress_large_image"

AggrLargeDslrImage == "copy.compress_large_dslr_image"

AggrExtremelyLargeImage == "copy.compress_extremely_large_image"

AggrFns ==
    { AggrCompressImage, AggrLargeImage, AggrLargeDslrImage,
      AggrExtremelyLargeImage }

\* the first position of entry point f inside the locked section
FirstPc(f) ==
    CASE f = "smart_compress_image" -> "s_load"
      [] f \in AggrFns -> "g_load"
      [] f = "get_image_info" -> "i_load"
      [] f = "test_vips_basic" -> "t_black"
      [] OTHER -> "load"

\* what an entry point returns when it gives up
Failure(f) ==
    CASE f = "get_image_info" ->
           [width |-> 0, height |-> 0, bands |-> 0, orientation |-> 0,
            needs_resize |-> 0, new_width |-> 0, new_height |-> 0]
      [] f = "test_vips_basic" -> [code |-> -1]
      [] OTHER -> FailResult

\* the two starting qualities exchanged
StartQuality_Swapped(type) == IF type = 1 THEN 85 ELSE 93

\* int start_quality = (type == 1) ? 93 : 85
StartQuality(type) == IF type = 1 THEN 93 ELSE 85

\* vips_smart_wrapper.c: strstr(output_path, "compressed") on the model's
\* output paths
HasCompressed(output_path) == output_path = "out_compressed.jpg"

\* const int max_kb = strstr(output_path, "compressed") ? LOW_MAX_KB
\*                                                      : HIGH_MAX_KB
MaxKB(output_path) ==
    IF HasCompressed(output_path) THEN LOW_MAX_KB ELSE HIGH_MAX_KB

\* quality = (max_kb == HIGH_MAX_KB ? high_quality_start : low_quality_start)
WrapperStart(max_kb) ==
    IF max_kb = HIGH_MAX_KB THEN high_quality_start ELSE low_quality_start

\* the entry point of vips_smart_wrapper.c, which shares its name with the
\* one of image_compressor.c
WrapperFn == "vips_smart_wrapper.smart_compress_image"

\* where a call stands after its argument checks
EntryPc(f, a) ==
    CASE f = "shutdown_vips" -> "sd_lock"
      [] f = WrapperFn -> "w_load"
      [] OTHER -> IF Validate(f, a) THEN "ensure" ELSE "ret"

\* thread t goes on to position p with locals l and history hh
Goto(t, p, l, hh) ==
    /\ pc' = [pc EXCEPT ![t] = p]
    /\ loc' = [loc EXCEPT ![t] = l]
    /\ h' = [h EXCEPT ![t] = hh]
    /\ UNCHANGED <<fn, arg, result>>

\* the entry point returns r.  Where the environment observes results the
\* thread stands at "ret" with the value (and the history of the call) until
\* the caller takes it; otherwise the thread is idle at once.
Done(t, r, l, hh, env) ==
    IF env.observe
    THEN /\ pc' = [pc EXCEPT ![t] = "ret"]
         /\ result' = [result EXCEPT ![t] = r]
         /\ loc' = [loc EXCEPT ![t] = l]
         /\ h' = [h EXCEPT ![t] = hh]
         /\ UNCHANGED <<fn, arg>>
    ELSE /\ pc' = [pc EXCEPT ![t] = "idle"]
         /\ fn' = [fn EXCEPT ![t] = "none"]
         /\ arg' = [arg EXCEPT ![t] = NoArg]
         /\ loc' = [loc EXCEPT ![t] = NoLoc]
         /\ result' = [result EXCEPT ![t] = NoResult]
         /\ h' = [h EXCEPT ![t] = NoHist]

\* a return that leaves the mutex locked
Unlock_KeepLocked(t, r, l, hh, env) ==
    /\ UNCHANGED vips_mutex
    /\ Done(t, r, l, hh, env)

\* pthread_mutex_unlock(&vips_mutex); return r
Unlock(t, r, l, hh, env) ==
    /\ vips_mutex' = 0
    /\ Done(t, r, l, hh, env)

\* a thread calls an entry point: the argument checks and fopen() that come
\* before ensure_vips_initialized are local and are made here
Call(t, env) ==
    /\ pc[t] = "idle"
    /\ \E c \in env.calls :
         LET l == [NoLoc EXCEPT
                     !.format = ResolveFormat(c.fn, c.arg),
                     !.quality =
                        IF c.fn = WrapperFn
                        THEN WrapperStart(MaxKB(c.arg.output_path))
                        ELSE FinalQuality(c.fn, c.arg)]
             p == EntryPc(c.fn, c.arg)
         IN  IF p = "ret" /\ ~env.observe
             THEN UNCHANGED <<pc, fn, arg, loc, result, h>>
             ELSE /\ fn' = [fn EXCEPT ![t] = c.fn]
                  /\ arg' = [arg EXCEPT ![t] = c.arg]
                  /\ pc' = [pc EXCEPT ![t] = p]
                  /\ loc' = [loc EXCEPT ![t] = l]
                  /\ h' = [h EXCEPT ![t] = NoHist]
                  /\ result' = [result EXCEPT ![t] =
                                  IF p = "ret" THEN Failure(c.fn)
                                  ELSE NoResult]
    /\ UNCHANGED <<vips_mutex, vips_initialized>>

\* a lock that never blocks: the entry points would run unserialized
MutexFree_NoBlock == TRUE

\* pthread_mutex_lock(&vips_mutex): blocks while another thread holds it
MutexFree == vips_mutex = 0

\* ensure_vips_initialized: pthread_mutex_lock
EnsureLock(t) ==
    /\ pc[t] = "ensure"
    /\ MutexFree
    /\ vips_mutex' = t
    /\ Goto(t, "ensure_cs", loc[t], h[t])
    /\ UNCHANGED vips_initialized

\* ensure_vips_initialized: if (!vips_initialized) go on to VIPS_INIT;
\* otherwise unlock and return 1
EnsureInit(t, env) ==
    /\ pc[t] = "ensure_cs"
    /\ IF vips_initialized = 0
       THEN /\ Goto(t, "vips_init", loc[t], h[t])
            /\ UNCHANGED vips_mutex
       ELSE /\ vips_mutex' = 0
            /\ Goto(t, "lock", loc[t], h[t])
    /\ UNCHANGED vips_initialized

\* ensure_vips_initialized: VIPS_INIT("image_compressor"); when it fails,
\* unlock and return 0, and the entry point returns failure; otherwise
\* vips_initialized = 1, unlock, return 1
VipsInit(t, env) ==
    /\ pc[t] = "vips_init"
    /\ \E init_ok \in BOOLEAN :
         IF init_ok
         THEN /\ vips_initialized' = 1
              /\ vips_mutex' = 0
              /\ Goto(t, "lock", loc[t], h[t])
         ELSE /\ Unlock(t, Failure(fn[t]), loc[t], h[t], env)
              /\ UNCHANGED vips_initialized

\* pthread_mutex_lock(&vips_mutex) of the entry point itself
Lock(t) ==
    /\ pc[t] = "lock"
    /\ MutexFree
    /\ vips_mutex' = t
    /\ Goto(t, FirstPc(fn[t]),
            [loc[t] EXCEPT !.quality =
               IF fn[t] = "smart_compress_image"
               THEN StartQuality(arg[t].type) ELSE @],
            h[t])
    /\ UNCHANGED vips_initialized

\* the caller takes the returned value; the thread is idle again
Return(t) ==
    /\ pc[t] = "ret"
    /\ pc' = [pc EXCEPT ![t] = "idle"]
    /\ fn' = [fn EXCEPT ![t] = "none"]
    /\ arg' = [arg EXCEPT ![t] = NoArg]
    /\ loc' = [loc EXCEPT ![t] = NoLoc]
    /\ result' = [result EXCEPT ![t] = NoResult]
    /\ h' = [h EXCEPT ![t] = NoHist]
    /\ UNCHANGED <<vips_mutex, vips_initialized>>

---------------------------------------------------------------------------
(* The single pass: decode, resize, sRGB copy, encode *)

\* the sRGB copy is skipped for GIF by the entry points that take a format
NeedsCopy(f, format) == f \notin FormatFns \/ format # FORMAT_GIF

EncodePc(f) == IF f = "auto_compress_image" THEN "a_encode" ELSE "encode"

AfterResize(f, format) ==
    IF NeedsCopy(f, format) THEN "copy" ELSE EncodePc(f)

\* history: a codec operation has returned a new image handle, which holds
\* one reference
NewHandle(hist) == [hist EXCEPT !.refs = Append(@, 1)]

\* history: g_object_ref of the handle created id-th in the call
Ref(hist, id) == [hist EXCEPT !.refs[id] = @ + 1]

\* a g_object_unref that is left out
Unref_Skip(hist, id) == hist

\* history: g_object_unref of the handle created id-th in the call
Unref(hist, id) ==
    IF hist.refs[id] > 0 THEN [hist EXCEPT !.refs[id] = @ - 1]
    ELSE [hist EXCEPT !.badUnref = TRUE]

\* the handle the variable `image` points at: the newest of the call
CurImage(hist) == Len(hist.refs)

\* g_object_unref(image)
UnrefImage(hist) == Unref(hist, CurImage(hist))

\* the operation has left a new handle in processed_image:
\* g_object_unref(image); image = processed_image; processed_image = NULL
ReplaceImage(hist) == Unref(NewHandle(hist), CurImage(hist))

\* history: the number of handles of the call that hold a reference
LiveHandles(hist) ==
    Cardinality({ id \in 1..Len(hist.refs) : hist.refs[id] > 0 })

\* vips_image_new_from_file, the dimension check, and the sizing plan.  The
\* decode fails for a path that is no readable image, and may fail for any.
Load(t, env) ==
    /\ pc[t] = "load"
    /\ \E img \in env.images \cup {NullImage} :
         LET hh == [h[t] EXCEPT !.loads = @ + 1]
         IN  IF img = NullImage \/ ~Readable(arg[t].path)
             THEN Unlock(t, FailResult, loc[t], hh, env)
             ELSE IF fn[t] \in DimCheckFns
                     /\ (img.width <= 0 \/ img.height <= 0 \/ img.bands <= 0)
             THEN \* g_object_unref(image)
                  Unlock(t, FailResult, loc[t], UnrefImage(NewHandle(hh)), env)
             ELSE \E p \in Plans(fn[t], arg[t], img.width, img.height) :
                  /\ Goto(t, IF p.needs_resize = 1 THEN "resize"
                             ELSE AfterResize(fn[t], loc[t].format),
                          [loc[t] EXCEPT !.width = img.width,
                                         !.height = img.height,
                                         !.bands = img.bands,
                                         !.needs_resize = p.needs_resize,
                                         !.scale = p.scale,
                                         !.new_width = p.new_width,
                                         !.new_height = p.new_height],
                          NewHandle(hh))
                  /\ UNCHANGED vips_mutex
    /\ UNCHANGED vips_initialized

\* vips_resize(image, &processed_image, scale, ...); on failure the image is
\* released and the call returns failure
Resize(t, env) ==
    /\ pc[t] = "resize"
    /\ \E ok \in BOOLEAN :
         LET hh == [h[t] EXCEPT !.resizes = @ + 1]
         IN  IF ok
             THEN /\ Goto(t, AfterResize(fn[t], loc[t].format), loc[t],
                          [ReplaceImage(hh) EXCEPT !.resized = TRUE,
                                                   !.rscale = loc[t].scale])
                  /\ UNCHANGED vips_mutex
             ELSE Unlock(t, FailResult, loc[t], UnrefImage(hh), env)
    /\ UNCHANGED vips_initialized

\* vips_copy(image, &processed_image, "interpretation", sRGB)
Copy(t, env) ==
    /\ pc[t] = "copy"
    /\ \E ok \in BOOLEAN :
         LET hh == [h[t] EXCEPT !.copies = @ + 1]
         IN  IF ok
             THEN /\ Goto(t, EncodePc(fn[t]), loc[t],
                          [ReplaceImage(hh) EXCEPT !.srgb = TRUE])
                  /\ UNCHANGED vips_mutex
             ELSE Unlock(t, FailResult, loc[t], UnrefImage(hh), env)
    /\ UNCHANGED vips_initialized

\* the candidate's buffer kept when it is not the best
FreeBuffer_Leak(hist, id) == hist

\* history: g_free of the buffer named id (0 is NULL: the code tests the
\* pointer before it frees)
FreeBuffer(hist, id) ==
    IF id = 0 THEN hist
    ELSE IF id \in hist.live THEN [hist EXCEPT !.live = @ \ {id}]
    ELSE [hist EXCEPT !.doubleFree = TRUE]

\* history: an encoder call has left the buffer named id (0: none)
AllocBuffer(hist, id) ==
    IF id = 0 THEN hist
    ELSE [hist EXCEPT !.live = @ \cup {id},
                      !.maxLive = Max(@, Cardinality(hist.live \cup {id}))]

\* the entry points that free the buffer a failed encoder call has left;
\* compress_large_image and compress_large_dslr_image do not
FreesFailedBuffer(f) ==
    f \notin {"compress_large_image", "compress_large_dslr_image"}

\* what an encoder call leaves behind: its return code, whether it left a
\* buffer, and the buffer's size.  The code does not rely on a return code
\* of 0 coming with a buffer, nor on a buffer having bytes in it.
EncodeOutcomes(sizes) ==
    { [rc |-> 0, buf |-> TRUE, size |-> s] : s \in sizes }
      \cup { [rc |-> -1, buf |-> FALSE, size |-> 0],
             [rc |-> -1, buf |-> TRUE, size |-> 0],
             [rc |-> 0, buf |-> FALSE, size |-> 0],
             [rc |-> 0, buf |-> TRUE, size |-> 0] }

\* the encoder's return code alone taken for success
EncodeSucceeded_RcOnly(o) == o.rc = 0

\* save_result == 0 && buffer && buffer_size > 0
EncodeSucceeded(o) == o.rc = 0 /\ o.buf /\ o.size > 0

\* the history after an encoder call of format fmt at quality q
Encoded(hist, f, format, q, o) ==
    [hist EXCEPT !.encodes = @ + 1,
                 !.encFmt = format,
                 !.encQ = IF format \in {FORMAT_PNG, FORMAT_GIF} THEN -1 ELSE q,
                 !.encLevel = IF format = FORMAT_PNG THEN PngLevel(f, q) ELSE -1,
                 !.encSize = IF EncodeSucceeded(o) THEN o.size ELSE 0]

\* the switch (format) and the vips_*save_buffer it selects
Encode(t, env) ==
    /\ pc[t] = "encode"
    /\ IF loc[t].format \notin FORMAT_JPEG..FORMAT_GIF
       THEN \* default: unsupported format
            Unlock(t, FailResult, loc[t], UnrefImage(h[t]), env)
       ELSE IF /\ loc[t].format = FORMAT_GIF
               /\ fn[t] \in GifGuardFns
               /\ loc[t].bands < 3
       THEN \* save_result = -1: the GIF encoder is skipped
            Unlock(t, FailResult, loc[t], UnrefImage(h[t]), env)
       ELSE \E o \in EncodeOutcomes(env.sizes) :
            LET buffer == IF o.buf THEN h[t].encodes + 1 ELSE 0
                hh == AllocBuffer(Encoded(h[t], fn[t], loc[t].format,
                                          loc[t].quality, o), buffer)
                \* if (buffer) g_free(buffer), where the entry point has it
                freed == IF FreesFailedBuffer(fn[t])
                         THEN FreeBuffer(hh, buffer) ELSE hh
            IN  IF EncodeSucceeded(o)
                THEN Unlock(t, OkResult(o.size), loc[t], UnrefImage(hh), env)
                ELSE IF fn[t] \in RetryFns
                THEN /\ Goto(t, "encode2", loc[t], freed)
                     /\ UNCHANGED vips_mutex
                ELSE Unlock(t, FailResult, loc[t], UnrefImage(freed), env)
    /\ UNCHANGED vips_initialized

\* compress_image, compress_image_with_size: "try with standard quality"
EncodeRetry(t, env) ==
    /\ pc[t] = "encode2"
    /\ \E o \in EncodeOutcomes(env.sizes) :
         LET buffer == IF o.buf THEN h[t].encodes + 1 ELSE 0
             hh == AllocBuffer(Encoded(h[t], fn[t], FORMAT_JPEG,
                                       arg[t].quality, o), buffer)
         IN  IF EncodeSucceeded(o)
             THEN Unlock(t, OkResult(o.size), loc[t], UnrefImage(hh), env)
             ELSE \* if (buffer) g_free(buffer)
                  Unlock(t, FailResult, loc[t],
                         UnrefImage(FreeBuffer(hh, buffer)), env)
    /\ UNCHANGED vips_initialized

---------------------------------------------------------------------------
(* The target-size search of image_compressor.c: smart_compress_image *)

\* int up_size_buffer_kb = (int)(target_kb * 1.2): for every target_kb from
\* 1 to 99999 the double product truncates to (target_kb * 12) / 10
UpSizeBufferKB(target_kb) == (target_kb * 12) \div 10

\* int down_size_buffer_kb = (int)(target_kb * 0.8)
DownSizeBufferKB(target_kb) == (target_kb * 8) \div 10

\* int size_kb = (int)(buffer_size / 1024)
SizeKB(buffer_size) == buffer_size \div 1024

\* the band test with its lower bound left out
InBand_NoLower(size_kb, down_kb, up_kb) == size_kb <= up_kb

\* the band test with the upper bound made strict
InBand_StrictUpper(size_kb, down_kb, up_kb) ==
    size_kb < up_kb /\ size_kb >= down_kb

\* size_kb <= up_size_buffer_kb && size_kb >= down_size_buffer_kb
InBand(size_kb, down_kb, up_kb) == size_kb <= up_kb /\ size_kb >= down_kb

\* the loop stepping by one: quality--
NextQuality_ByOne(quality) == quality - 1

\* quality -= quality_step
NextQuality(quality) == quality - quality_step

\* the loop leaving out its last quality: quality > end_quality
LoopGuard_Strict(quality) == quality > end_quality

\* quality >= end_quality
LoopGuard(quality) == quality >= end_quality

\* history: the record of a trial ends with the trial; the qualities tried
\* and the first trial within the band are kept, and so are the handles
\* that still hold a reference and a wrong unreference, if there was one
EndTrial(hist) ==
    [NoHist EXCEPT !.trials = hist.trials, !.tried = hist.tried,
                   !.firstIn = hist.firstIn,
                   !.refs = SelectSeq(hist.refs, LAMBDA n : n > 0),
                   !.badUnref = hist.badUnref,
                   !.live = hist.live, !.doubleFree = hist.doubleFree]

\* history: a buffer of `size` bytes counts, in whole kilobytes, between the
\* whole kilobytes of 0.8 and of 1.2 times the target
WithinBand(size, target_kb) ==
    LET kb == size \div 1024
    IN  (8 * target_kb) \div 10 <= kb /\ kb <= (12 * target_kb) \div 10

\* history: the first trial whose encode left a buffer within the band
NoteBand(hist, q, o, target_kb) ==
    IF hist.firstIn = 0 /\ EncodeSucceeded(o) /\ WithinBand(o.size, target_kb)
    THEN [hist EXCEPT !.firstIn = q]
    ELSE hist

\* the end of one trial that did not return: the for loop steps, and either
\* begins the next trial or falls out, unlocks and returns failure
SmartContinue(t, hh, env) ==
    LET q == NextQuality(loc[t].quality)
        l == [NoLoc EXCEPT !.quality = q]
    IN  IF LoopGuard(q)
        THEN /\ Goto(t, "s_load", l, EndTrial(hh))
             /\ UNCHANGED vips_mutex
        ELSE Unlock(t, FailResult, l, EndTrial(hh), env)

\* every type but 0 taken for the high quality type
HighMode_NonZero(type) == type # 0

\* if (type == 1): the high quality type
HighMode(type) == type = 1

\* image = vips_image_new_from_file(...); if (!image) continue
SmartLoad(t, env) ==
    /\ pc[t] = "s_load"
    /\ \E img \in env.searchImages \cup {NullImage} :
         LET hh == [h[t] EXCEPT !.trials = @ + 1,
                                !.tried = Append(@, loc[t].quality),
                                !.loads = 1]
         IN  IF img = NullImage \/ ~Readable(arg[t].path)
             THEN SmartContinue(t, hh, env)
             ELSE /\ Goto(t, IF HighMode(arg[t].type) THEN "s_resize"
                             ELSE "s_copy",
                          [loc[t] EXCEPT !.width = img.width,
                                         !.height = img.height,
                                         !.bands = img.bands],
                          NewHandle(hh))
                  /\ UNCHANGED vips_mutex
    /\ UNCHANGED vips_initialized

\* if (type == 1) vips_resize(image, &processed_image, 1.3, LANCZOS3);
\* on failure g_object_unref(image); continue
SmartResize(t, env) ==
    /\ pc[t] = "s_resize"
    /\ \E ok \in BOOLEAN :
         LET hh == [h[t] EXCEPT !.resizes = @ + 1]
         IN  IF ok
             THEN /\ Goto(t, "s_copy", loc[t],
                          [ReplaceImage(hh) EXCEPT !.resized = TRUE,
                                                   !.rscale = Ratio(13, 10)])
                  /\ UNCHANGED vips_mutex
             ELSE SmartContinue(t, UnrefImage(hh), env)
    /\ UNCHANGED vips_initialized

\* vips_copy(image, &processed_image, "interpretation", sRGB);
\* on failure g_object_unref(image); continue
SmartCopy(t, env) ==
    /\ pc[t] = "s_copy"
    /\ \E ok \in BOOLEAN :
         LET hh == [h[t] EXCEPT !.copies = @ + 1]
         IN  IF ok
             THEN /\ Goto(t, "s_encode", loc[t],
                          [ReplaceImage(hh) EXCEPT !.srgb = TRUE])
                  /\ UNCHANGED vips_mutex
             ELSE SmartContinue(t, UnrefImage(hh), env)
    /\ UNCHANGED vips_initialized

\* vips_jpegsave_buffer(image, &buffer, &buffer_size, "Q", quality, ...) and
\* the band test; in band: return the buffer; otherwise g_free and go on
SmartEncode(t, env) ==
    /\ pc[t] = "s_encode"
    /\ \E o \in EncodeOutcomes(env.smartSizes) :
         LET buffer == IF o.buf THEN h[t].encodes + 1 ELSE 0
             hh == AllocBuffer(NoteBand(Encoded(h[t], fn[t], FORMAT_JPEG,
                                                loc[t].quality, o),
                                        loc[t].quality, o, arg[t].target_kb),
                               buffer)
             accepted ==
               /\ EncodeSucceeded(o)
               /\ InBand(SizeKB(o.size), DownSizeBufferKB(arg[t].target_kb),
                         UpSizeBufferKB(arg[t].target_kb))
         IN  IF accepted
             THEN Unlock(t, OkResult(o.size), loc[t], UnrefImage(hh), env)
             ELSE \* g_free(buffer) of a size out of range, or
                  \* if (buffer) g_free(buffer) after a failed encode
                  SmartContinue(t, UnrefImage(FreeBuffer(hh, buffer)), env)
    /\ UNCHANGED vips_initialized

---------------------------------------------------------------------------
(* auto_compress_image: one encode per format, the smallest buffer wins *)

\* ImageFormat formats_to_try[]
formats_to_try ==
    << FORMAT_WEBP, FORMAT_JPEG, FORMAT_JXL, FORMAT_HEIF, FORMAT_JP2K,
       FORMAT_TIFF, FORMAT_PNG, FORMAT_GIF >>

\* every successful candidate taken for the best: the last one wins
IsSmaller_Always(buffer_size, best_size) == TRUE

\* no candidate ever taken for the best
IsSmaller_Never(buffer_size, best_size) == FALSE

\* the running best replaced by a result of the same size too
IsSmaller_OrEqual(buffer_size, best_size) ==
    best_size = 0 \/ buffer_size <= best_size

\* buffer_size < best_size, where best_size starts at SIZE_MAX (held as 0)
IsSmaller(buffer_size, best_size) == best_size = 0 \/ buffer_size < best_size

\* history: the smallest successful encode so far, and the iteration that
\* first produced a buffer of that size
NoteMin(hist, id, o) ==
    IF EncodeSucceeded(o) /\ (hist.minOk = 0 \/ o.size < hist.minOk)
    THEN [hist EXCEPT !.minOk = o.size, !.minId = id]
    ELSE hist

\* one iteration of for (i = 0; i < num_formats; i++): the buffer left by a
\* failed encode is freed, the encoder of formats_to_try[i] is called, a
\* smaller result replaces best_result (whose buffer is freed) and any other
\* result is freed; the last iteration is followed by the cleanup, the
\* unlock and the return of best_result.  Buffers are named by the iteration
\* that produced them.
AutoEncode(t, env) ==
    /\ pc[t] = "a_encode"
    /\ LET id == loc[t].i + 1
           current_format == formats_to_try[id]
           skipped == current_format = FORMAT_GIF /\ loc[t].bands < 3
           last == id = Len(formats_to_try)
           cleared == FreeBuffer(h[t], loc[t].buffer)
       IN  \E o \in IF skipped THEN {[rc |-> -1, buf |-> FALSE, size |-> 0]}
                    ELSE EncodeOutcomes(env.sizes) :
             LET better == EncodeSucceeded(o)
                           /\ IsSmaller(o.size, loc[t].best_size)
                 best == IF better THEN o.size ELSE loc[t].best_size
                 buffer == IF o.buf THEN id ELSE 0
                 called == IF skipped THEN cleared
                           ELSE Encoded(cleared, fn[t], current_format,
                                        arg[t].quality, o)
                 saved == NoteMin(AllocBuffer(
                                    [called EXCEPT
                                       !.visited = Append(@, current_format)],
                                    buffer), id, o)
                 kept == IF better THEN FreeBuffer(saved, loc[t].best_data)
                         ELSE IF EncodeSucceeded(o)
                         THEN FreeBuffer(saved, buffer)
                         ELSE saved
                 best_data == IF better THEN buffer ELSE loc[t].best_data
                 left == IF EncodeSucceeded(o) THEN 0 ELSE buffer
             IN  IF last
                 THEN Unlock(t, IF best # 0 THEN OkResult(best)
                                ELSE FailResult,
                             [loc[t] EXCEPT !.best_size = best,
                                            !.best_data = best_data,
                                            !.buffer = 0],
                             UnrefImage(FreeBuffer(kept, left)), env)
                 ELSE /\ Goto(t, "a_encode",
                              [loc[t] EXCEPT !.i = @ + 1,
                                             !.best_size = best,
                                             !.best_data = best_data,
                                             !.buffer = left],
                              kept)
                      /\ UNCHANGED vips_mutex
    /\ UNCHANGED vips_initialized

---------------------------------------------------------------------------
(* get_image_info, test_vips_basic, shutdown_vips *)

\* needs_resize reported from 6000 on instead of above 6000
InfoPlan_AtLeast(width, height) ==
    IF width >= max_dimension \/ height >= max_dimension
    THEN IF width > height
         THEN Plan(1, Ratio(max_dimension, width),
                   max_dimension, (height * max_dimension) \div width)
         ELSE Plan(1, Ratio(max_dimension, height),
                   (width * max_dimension) \div height, max_dimension)
    ELSE Plan(0, Ratio(1, 1), 0, 0)

\* get_image_info: info.needs_resize, info.new_width, info.new_height, which
\* start at 0; (int)((double)info.height * max_dimension / info.width)
InfoPlan(width, height) ==
    IF width > max_dimension \/ height > max_dimension
    THEN IF width > height
         THEN Plan(1, Ratio(max_dimension, width),
                   max_dimension, (height * max_dimension) \div width)
         ELSE Plan(1, Ratio(max_dimension, height),
                   (width * max_dimension) \div height, max_dimension)
    ELSE Plan(0, Ratio(1, 1), 0, 0)

\* image = vips_image_new_from_file(...); info.width, height, bands
InfoLoad(t, env) ==
    /\ pc[t] = "i_load"
    /\ \E img \in env.images \cup {NullImage} :
         LET hh == [h[t] EXCEPT !.loads = @ + 1]
         IN  IF img = NullImage \/ ~Readable(arg[t].path)
             THEN Unlock(t, Failure(fn[t]), loc[t], hh, env)
             ELSE /\ Goto(t, "i_copy",
                          [loc[t] EXCEPT !.width = img.width,
                                         !.height = img.height,
                                         !.bands = img.bands],
                          NewHandle(hh))
                  /\ UNCHANGED vips_mutex
    /\ UNCHANGED vips_initialized

\* vips_copy for the EXIF orientation (the copy is unreferenced as soon as
\* the orientation is read; a failed copy leaves the orientation at 0), then
\* the 6000 cap, g_object_unref(image), unlock
InfoCopy(t, env) ==
    /\ pc[t] = "i_copy"
    /\ \E copied \in BOOLEAN :
       \E orientation \in IF copied THEN env.orientations ELSE {0} :
         LET p == InfoPlan(loc[t].width, loc[t].height)
             image == CurImage(h[t])
             hh == IF copied THEN UnrefImage(NewHandle(h[t])) ELSE h[t]
         IN  Unlock(t, [width |-> loc[t].width, height |-> loc[t].height,
                        bands |-> loc[t].bands,
                        orientation |-> orientation,
                        needs_resize |-> p.needs_resize,
                        new_width |-> p.new_width,
                        new_height |-> p.new_height],
                    [loc[t] EXCEPT !.needs_resize = p.needs_resize,
                                   !.new_width = p.new_width,
                                   !.new_height = p.new_height],
                    [Unref(hh, image) EXCEPT !.copies = @ + 1], env)
    /\ UNCHANGED vips_initialized

\* vips_black(&test_image, 1, 1, NULL)
TestBlack(t, env) ==
    /\ pc[t] = "t_black"
    /\ \E ok \in BOOLEAN :
         IF ok
         THEN /\ Goto(t, "t_save", loc[t], NewHandle(h[t]))
              /\ UNCHANGED vips_mutex
         ELSE Unlock(t, [code |-> -1], loc[t], h[t], env)
    /\ UNCHANGED vips_initialized

\* vips_jpegsave_buffer(test_image, &buffer, &buffer_size, NULL)
TestSave(t, env) ==
    /\ pc[t] = "t_save"
    /\ \E ok \in BOOLEAN :
         Unlock(t, [code |-> IF ok THEN 0 ELSE -1], loc[t],
                [UnrefImage(h[t]) EXCEPT !.encodes = @ + 1], env)
    /\ UNCHANGED vips_initialized

\* shutdown_vips: pthread_mutex_lock
ShutdownLock(t) ==
    /\ pc[t] = "sd_lock"
    /\ MutexFree
    /\ vips_mutex' = t
    /\ Goto(t, "sd_cs", loc[t], h[t])
    /\ UNCHANGED vips_initialized

\* if (vips_initialized) { vips_shutdown(); vips_initialized = 0; } unlock
Shutdown(t, env) ==
    /\ pc[t] = "sd_cs"
    /\ vips_initialized' = 0
    /\ Unlock(t, NoResult, loc[t], h[t], env)

---------------------------------------------------------------------------
(* The target-size search of vips_smart_wrapper.c.  It takes no lock and     *)
(* writes its trials to output_path; its result is an int.                   *)

\* const int up_kb = max_kb * 1.2; const int down_kb = max_kb * 0.8
WrapperUpKB(max_kb) == (max_kb * 12) \div 10

WrapperDownKB(max_kb) == (max_kb * 8) \div 10

\* quality -= quality_step; quality >= min_quality; else return 4
WrapperContinue(t, hh, env) ==
    LET q == loc[t].quality - w_quality_step
        l == [NoLoc EXCEPT !.quality = q]
    IN  IF q >= min_quality
        THEN Goto(t, "w_load", l, EndTrial(hh))
        ELSE Done(t, [code |-> 4], l, EndTrial(hh), env)

\* image = vips_image_new_from_file(...); if (!image) return 1
WrapperLoad(t, env) ==
    /\ pc[t] = "w_load"
    /\ \E img \in env.searchImages \cup {NullImage} :
         LET hh == [h[t] EXCEPT !.trials = @ + 1,
                                !.tried = Append(@, loc[t].quality),
                                !.loads = 1]
         IN  IF img = NullImage \/ ~Readable(arg[t].path)
             THEN Done(t, [code |-> 1], loc[t], hh, env)
             ELSE \* without a resize: resized = image; g_object_ref(resized)
                  Goto(t, IF MaxKB(arg[t].output_path) = HIGH_MAX_KB
                          THEN "w_resize" ELSE "w_save",
                       [loc[t] EXCEPT !.width = img.width,
                                      !.height = img.height,
                                      !.bands = img.bands],
                       IF MaxKB(arg[t].output_path) = HIGH_MAX_KB
                       THEN NewHandle(hh)
                       ELSE Ref(NewHandle(hh), CurImage(NewHandle(hh))))
    /\ UNCHANGED <<vips_mutex, vips_initialized>>

\* if (max_kb == HIGH_MAX_KB) vips_resize(image, &resized, 1.3, ...);
\* on failure g_object_unref(image); return 2
WrapperResize(t, env) ==
    /\ pc[t] = "w_resize"
    /\ \E ok \in BOOLEAN :
         LET hh == [h[t] EXCEPT !.resizes = @ + 1]
         IN  IF ok
             THEN Goto(t, "w_save", loc[t],
                       [NewHandle(hh) EXCEPT !.resized = TRUE,
                                             !.rscale = Ratio(13, 10)])
             ELSE Done(t, [code |-> 2], loc[t], UnrefImage(hh), env)
    /\ UNCHANGED <<vips_mutex, vips_initialized>>

\* vips_jpegsave(resized, output_path, "Q", quality, ...), the two unrefs,
\* if (result != 0) return 3, and the band test on the file's size
WrapperSave(t, env) ==
    /\ pc[t] = "w_save"
    /\ \E o \in { [rc |-> 0, buf |-> TRUE, size |-> sz] : sz \in env.fileSizes }
                  \cup { [rc |-> -1, buf |-> FALSE, size |-> 0] } :
         LET max_kb == MaxKB(arg[t].output_path)
             size_kb == o.size \div 1024
             \* g_object_unref(image); g_object_unref(resized): image is
             \* the first handle of the trial, resized the last
             image == CurImage(h[t]) - (IF max_kb = HIGH_MAX_KB THEN 1 ELSE 0)
             resized == CurImage(h[t])
             hh == [Unref(Unref(h[t], image), resized) EXCEPT
                      !.encodes = @ + 1,
                      !.encFmt = FORMAT_JPEG,
                      !.encQ = loc[t].quality,
                      !.encSize = o.size,
                      !.firstIn = IF @ = 0 /\ o.rc = 0
                                     /\ WithinBand(o.size, max_kb)
                                  THEN loc[t].quality ELSE @]
         IN  IF o.rc # 0
             THEN Done(t, [code |-> 3], loc[t], hh, env)
             ELSE IF size_kb >= WrapperDownKB(max_kb)
                     /\ size_kb <= WrapperUpKB(max_kb)
             THEN Done(t, [code |-> 0], loc[t], hh, env)
             ELSE WrapperContinue(t, hh, env)
    /\ UNCHANGED <<vips_mutex, vips_initialized>>

---------------------------------------------------------------------------
(* Environments: the calls the threads make and what the codec answers *)

Arg(path, quality, target_kb, type, tw, th, format, output_path) ==
    [NoArg EXCEPT !.path = path, !.output_path = output_path,
                  !.quality = quality, !.target_kb = target_kb,
                  !.type = type, !.target_width = tw,
                  !.target_height = th, !.format = format]

Image(width, height, bands) ==
    [width |-> width, height |-> height, bands |-> bands]

\* entry points of image_compressor.c called with (input_path, quality)
QualityFns ==
    { "compress_image", "compress_large_image", "compress_large_dslr_image",
      "auto_compress_image", "fast_webp_compress" }

\* ... with (input_path, quality, format)
QualityFormatFns ==
    { "compress_image_with_format", "compress_large_image_with_format",
      "compress_large_dslr_image_with_format" }

\* the calls of the entry points of image_compressor.c over the given
\* argument values
ApiCalls(paths, qualities, targets, formats, kbs, types, swfTypes) ==
    { [fn |-> f, arg |-> Arg(p, q, 0, 0, 0, 0, 0, NULL)] :
        f \in QualityFns, p \in paths, q \in qualities }
    \cup { [fn |-> f, arg |-> Arg(p, q, 0, 0, 0, 0, fmt, NULL)] :
        f \in QualityFormatFns, p \in paths, q \in qualities, fmt \in formats }
    \cup { [fn |-> "compress_image_with_size",
            arg |-> Arg(p, q, 0, 0, tw, th, 0, NULL)] :
        p \in paths, q \in qualities, tw \in targets, th \in targets }
    \cup { [fn |-> "compress_image_with_size_and_format",
            arg |-> Arg(p, q, 0, 0, tw, th, fmt, NULL)] :
        p \in paths, q \in qualities, tw \in targets, th \in targets,
        fmt \in formats }
    \cup { [fn |-> "smart_compress_image",
            arg |-> Arg(p, 0, kb, ty, 0, 0, 0, NULL)] :
        p \in paths, kb \in kbs, ty \in types }
    \cup { [fn |-> "smart_compress_image_with_format",
            arg |-> Arg(p, 0, kb, ty, 0, 0, fmt, NULL)] :
        p \in paths, kb \in kbs, ty \in swfTypes, fmt \in formats }
    \cup { [fn |-> f, arg |-> Arg(p, 0, 0, 0, 0, 0, 0, NULL)] :
        f \in {"get_image_info"}, p \in paths }
    \cup { [fn |-> f, arg |-> NoArg] : f \in {"test_vips_basic", "shutdown_vips"} }

\* the entry points that take a format, asked to detect it from a path
\* whose extension is not the default's
AutoFormatCalls ==
    { [fn |-> f, arg |-> Arg(HeicPath, 80, 2, 0, 0, 0, FORMAT_AUTO, NULL)] :
        f \in FormatFns }

WrapperCalls ==
    { [fn |-> WrapperFn, arg |-> Arg(p, 0, 0, 0, 0, 0, 0, out)] :
        p \in {ValidPath, MissingPath},
        out \in {"out_compressed.jpg", "out.jpg"} }

\* encoder output sizes around the bands of the targets 1..MaxTargetKB: each
\* whole number of kilobytes, and one byte short of the next
SearchSizes ==
    { k * 1024 + r : k \in 0..MaxSizeKB, r \in {0, 1023} } \ {0}

\* file sizes around the wrapper's bands 640..960 KB and 1600..2400 KB
WrapperSizes ==
    { 0, 640 * 1024 - 1, 640 * 1024, 961 * 1024 - 1, 961 * 1024,
      1600 * 1024 - 1, 1600 * 1024, 2401 * 1024 - 1, 2401 * 1024 }

\* the concurrent environment: one call of every entry point
ConcEnv ==
    [calls |-> ApiCalls({ValidPath}, {80}, {0}, {FORMAT_PNG}, {2}, {1}, {0}),
     images |-> { Image(9000, 6000, 3) },
     searchImages |-> { Image(4000, 3000, 3) },
     sizes |-> { 2048 },
     smartSizes |-> { 2048, 8192 },
     fileSizes |-> { 0 },
     orientations |-> { 0 },
     observe |-> FALSE]

\* the sequential environment: valid and invalid arguments, images on both
\* sides of the 6000 cap, sizes on both sides of every band
SeqEnv ==
    [calls |-> ApiCalls({NULL, "", MissingPath, ValidPath}, {0, 1, 80, 101},
                        {0, 100, 7000}, 0..9, 0..MaxTargetKB, {0, 1, 2},
                        0..4)
               \cup WrapperCalls \cup AutoFormatCalls,
     images |-> { Image(4000, 3000, 3), Image(6000, 6000, 3),
                  Image(6001, 10, 3), Image(6001, 1, 3),
                  Image(9000, 6000, 3), Image(3000, 9000, 1),
                  Image(49, 49, 3), Image(1, 6001, 3), Image(0, 0, 0) },
     searchImages |-> { Image(4000, 3000, 3) },
     sizes |-> { 1024, 2048, 8192 },
     smartSizes |-> SearchSizes,
     fileSizes |-> WrapperSizes,
     orientations |-> { 0, 6 },
     observe |-> TRUE]

---------------------------------------------------------------------------
(* Specifications *)

\* one step of thread t inside an entry point of image_compressor.c
ApiStep(t, env) ==
    \/ Call(t, env)
    \/ EnsureLock(t)
    \/ EnsureInit(t, env)
    \/ VipsInit(t, env)
    \/ Lock(t)
    \/ Load(t, env)
    \/ Resize(t, env)
    \/ Copy(t, env)
    \/ Encode(t, env)
    \/ EncodeRetry(t, env)
    \/ SmartLoad(t, env)
    \/ SmartResize(t, env)
    \/ SmartCopy(t, env)
    \/ SmartEncode(t, env)
    \/ AutoEncode(t, env)
    \/ InfoLoad(t, env)
    \/ InfoCopy(t, env)
    \/ TestBlack(t, env)
    \/ TestSave(t, env)
    \/ ShutdownLock(t)
    \/ Shutdown(t, env)

\* one step of thread t inside the search of vips_smart_wrapper.c
WrapperStep(t, env) ==
    \/ WrapperLoad(t, env)
    \/ WrapperResize(t, env)
    \/ WrapperSave(t, env)

\* any number of threads inside image_compressor.c
Next == \E t \in Threads : ApiStep(t, ConcEnv)

Spec == Init /\ [][Next]_vars

\* the steps of thread t that wait for vips_mutex: pthread_mutex_lock
LockStep(t) == EnsureLock(t) \/ Lock(t) \/ ShutdownLock(t)

\* the steps of thread t inside a call that wait for nothing
RunStep(t) ==
    \/ EnsureInit(t, ConcEnv)
    \/ VipsInit(t, ConcEnv)
    \/ Load(t, ConcEnv)
    \/ Resize(t, ConcEnv)
    \/ Copy(t, ConcEnv)
    \/ Encode(t, ConcEnv)
    \/ EncodeRetry(t, ConcEnv)
    \/ SmartLoad(t, ConcEnv)
    \/ SmartResize(t, ConcEnv)
    \/ SmartCopy(t, ConcEnv)
    \/ SmartEncode(t, ConcEnv)
    \/ AutoEncode(t, ConcEnv)
    \/ InfoLoad(t, ConcEnv)
    \/ InfoCopy(t, ConcEnv)
    \/ TestBlack(t, ConcEnv)
    \/ TestSave(t, ConcEnv)
    \/ Shutdown(t, ConcEnv)

\* any number of threads under a fair scheduler: a thread inside a call that
\* can run does run, every codec operation returns, and a thread that finds
\* the mutex free again and again does get it.  Nobody is obliged to call.
FairSpec ==
    /\ Init
    /\ [][Next]_vars
    /\ \A t \in Threads : WF_vars(RunStep(t)) /\ SF_vars(LockStep(t))

\* one caller, every argument, either search; the caller takes each result
NextSeq == ApiStep(1, SeqEnv) \/ WrapperStep(1, SeqEnv) \/ Return(1)

SeqSpec == Init /\ [][NextSeq]_vars

\* the sequential environment narrowed to the calls of the two searches
SearchEnv ==
    [SeqEnv EXCEPT !.calls =
       { c \in @ : c.fn \in {"smart_compress_image", WrapperFn} }]

\* one caller of the two searches
NextSearch ==
    \/ Call(1, SearchEnv)
    \/ EnsureLock(1)
    \/ EnsureInit(1, SearchEnv)
    \/ VipsInit(1, SearchEnv)
    \/ Lock(1)
    \/ SmartLoad(1, SearchEnv)
    \/ SmartResize(1, SearchEnv)
    \/ SmartCopy(1, SearchEnv)
    \/ SmartEncode(1, SearchEnv)
    \/ WrapperStep(1, SearchEnv)
    \/ Return(1)

\* the caller's thread is scheduled as long as it can take a step
FairSearchSpec == Init /\ [][NextSearch]_vars /\ WF_vars(NextSearch)

---------------------------------------------------------------------------
(* Serialization of the codec *)

\* the positions at which a thread's next step is a codec operation
CodecPcs ==
    { "load", "resize", "copy", "encode", "encode2",
      "s_load", "s_resize", "s_copy", "s_encode", "a_encode",
      "i_load", "i_copy", "t_black", "t_save" }

\* C1: a thread about to run a codec operation (decode, resize, colorspace
\* copy, encode) holds vips_mutex, and no two threads are at a codec
\* operation at the same time.
C1_CodecSerialized ==
    /\ \A t \in Threads : pc[t] \in CodecPcs => vips_mutex = t
    /\ \A t, u \in Threads :
         (t # u /\ pc[t] \in CodecPcs) => pc[u] \notin CodecPcs

\* C1, its case: one thread is encoding a trial of the search while another
\* is blocked on pthread_mutex_lock with its own codec work ahead
C1_Witness ==
    \E t, u \in Threads :
       /\ t # u
       /\ pc[t] = "s_encode"
       /\ pc[u] = "lock"
       /\ fn[u] = "compress_image"

---------------------------------------------------------------------------
(* The target-size search *)

\* thread t has returned from entry point f
Returned(t, f) == pc[t] = "ret" /\ fn[t] = f

\* smart_compress_image of image_compressor.c has returned success
SmartSuccess(t) ==
    Returned(t, "smart_compress_image") /\ result[t].success = 1

\* C2 as stated: on success the length L in bytes satisfies
\* 0.8*T*1024 <= L <= 1.2*T*1024
C2_AsStated ==
    \A t \in Threads :
       SmartSuccess(t) =>
          /\ 8 * arg[t].target_kb * 1024 <= 10 * result[t].length
          /\ 10 * result[t].length <= 12 * arg[t].target_kb * 1024

\* C2, amended: on success the length L, counted in whole kilobytes, lies
\* between the whole parts of 0.8*T and of 1.2*T:
\* floor(0.8*T) <= floor(L/1024) <= floor(1.2*T)
C2_WholeKilobytes ==
    \A t \in Threads :
       SmartSuccess(t) =>
          /\ ((8 * arg[t].target_kb) \div 10) * 1024 <= result[t].length
          /\ result[t].length
               <= ((12 * arg[t].target_kb) \div 10) * 1024 + 1023

\* C2, its case: a success whose length is outside 0.8*T*1024..1.2*T*1024
\* bytes and inside the band of whole kilobytes
C2_Witness ==
    \E t \in Threads :
       /\ SmartSuccess(t)
       /\ arg[t].target_kb = 1
       /\ result[t].length = 2047

\* the full descent from start: start, start-3, ... down to the last >= 40
DescentSeq(start) ==
    [i \in 1..((start - 40) \div 3 + 1) |-> start - 3 * (i - 1)]

IsPrefix(s, q) ==
    Len(s) <= Len(q) /\ \A i \in 1..Len(s) : s[i] = q[i]

\* thread t is inside, or has returned from, one of the two searches
InSearch(t) == fn[t] \in {"smart_compress_image", WrapperFn}

\* the caller of the search asked for high mode
AskedHigh(t) ==
    IF fn[t] = WrapperFn THEN arg[t].output_path # "out_compressed.jpg"
    ELSE arg[t].type = 1

\* the search of thread t has returned success
SearchSuccess(t) ==
    /\ pc[t] = "ret"
    /\ \/ fn[t] = "smart_compress_image" /\ result[t].success = 1
       \/ fn[t] = WrapperFn /\ result[t].code = 0

\* C3: the search accepts the first trial whose size is within the band and
\* stops: once a trial was within the band the search has returned success
\* with that trial's encoding, that trial is the last one made, and a search
\* that returns success returns such a trial.
C3_FirstAcceptable ==
    \A t \in Threads :
       InSearch(t) =>
          /\ h[t].firstIn # 0 =>
               /\ SearchSuccess(t)
               /\ h[t].tried[Len(h[t].tried)] = h[t].firstIn
               /\ h[t].encQ = h[t].firstIn
               /\ fn[t] = "smart_compress_image" =>
                    result[t].length = h[t].encSize
          /\ SearchSuccess(t) => h[t].firstIn # 0

\* C3, its case: a success at the third quality tried, after two trials
\* that were out of band or failed
C3_Witness ==
    \E t \in Threads :
       /\ SmartSuccess(t)
       /\ Len(h[t].tried) = 3
       /\ h[t].firstIn = h[t].tried[3]

\* C4: the qualities tried are a prefix of start, start-3, start-6, ... down
\* to 40, where start is 93 in high mode and 85 otherwise.
C4_DescendingQualities ==
    \A t \in Threads :
       InSearch(t) =>
          IsPrefix(h[t].tried, DescentSeq(IF AskedHigh(t) THEN 93 ELSE 85))

\* C4, its case: a high-mode search that went through all of 93, 90, ..., 42
C4_Witness ==
    \E t \in Threads :
       /\ Returned(t, "smart_compress_image")
       /\ arg[t].type = 1
       /\ h[t].tried = DescentSeq(93)

\* the positions inside the two searches
SearchPcs ==
    { "s_load", "s_resize", "s_copy", "s_encode",
      "w_load", "w_resize", "w_save" }

\* ceil((start - 40) / 3) + 1
TrialBound(start) == (start - 40 + 2) \div 3 + 1

\* C5: the search makes at most ceil((start-40)/3)+1 trials, and a search
\* that has begun returns.
C5_BoundedAndTerminates ==
    /\ [](\A t \in Threads :
            InSearch(t) =>
               h[t].trials <= TrialBound(IF AskedHigh(t) THEN 93 ELSE 85))
    /\ \A t \in Threads : (pc[t] \in SearchPcs) ~> (pc[t] = "ret")

\* C5, its case: a low-mode search that made all of its 16 trials
C5_Witness ==
    \E t \in Threads :
       /\ Returned(t, "smart_compress_image")
       /\ arg[t].type = 0
       /\ h[t].trials = 16

\* C6 as stated: smart_compress_image returns {NULL, 0, -1} exactly when no
\* trial was within the band, and then every quality down to 40 was tried
C6_AsStated ==
    \A t \in Threads :
       Returned(t, "smart_compress_image") =>
          /\ result[t] = FailResult <=> h[t].firstIn = 0
          /\ result[t] = FailResult =>
               h[t].tried = DescentSeq(IF arg[t].type = 1 THEN 93 ELSE 85)

\* C6, amended: once smart_compress_image has passed its argument checks
\* and the initialization and has begun the search, it returns
\* {NULL, 0, -1} exactly when no trial was within the band; then every
\* quality down to 40 was tried, and every trial began and ended with no
\* handle of an earlier trial left.
C6_FailureIsExhaustion ==
    \A t \in Threads :
       /\ (Returned(t, "smart_compress_image") /\ h[t].trials > 0) =>
            /\ result[t] = FailResult <=> h[t].firstIn = 0
            /\ result[t] = FailResult =>
                 h[t].tried = DescentSeq(IF arg[t].type = 1 THEN 93 ELSE 85)
            /\ LiveHandles(h[t]) = 0
       /\ (fn[t] = "smart_compress_image" /\ pc[t] = "s_load") =>
            LiveHandles(h[t]) = 0

\* C6, its case: a low-mode search whose sixteen trials all failed or were
\* out of band, and which returned failure
C6_Witness ==
    \E t \in Threads :
       /\ Returned(t, "smart_compress_image")
       /\ result[t] = FailResult
       /\ arg[t].type = 0
       /\ h[t].trials = 16
       /\ h[t].tried[16] = 40

\* C7: a trial of the search that reaches its encode has decoded the source
\* once in that trial; in high mode it has resized it once, by 1.3, and in
\* low or default mode it has not resized it.
C7_ResizeByMode ==
    \A t \in Threads :
       (InSearch(t) /\ (pc[t] \in {"s_encode", "w_save"} \/ h[t].encodes > 0))
          => /\ h[t].loads = 1
             /\ IF AskedHigh(t)
                THEN /\ h[t].resized
                     /\ h[t].resizes = 1
                     /\ h[t].rscale = [n |-> 13, d |-> 10]
                ELSE /\ ~h[t].resized
                     /\ h[t].resizes = 0

\* C7, its case: the second trial of a high-mode search, resized and about
\* to be encoded
C7_Witness ==
    \E t \in Threads :
       /\ fn[t] = "smart_compress_image"
       /\ arg[t].type = 1
       /\ pc[t] = "s_encode"
       /\ Len(h[t].tried) = 2
       /\ h[t].resized

\* C8 as stated: a success of smart_compress_image_with_format has a length
\* within the band of its target (taken here as generously as
\* smart_compress_image takes it, in whole kilobytes)
C8_AsStated ==
    \A t \in Threads :
       ( /\ Returned(t, "smart_compress_image_with_format")
         /\ result[t].success = 1
         /\ loc[t].width > 0
         /\ arg[t].target_kb > 0 )
          => /\ ((8 * arg[t].target_kb) \div 10) * 1024 <= result[t].length
             /\ result[t].length
                  <= ((12 * arg[t].target_kb) \div 10) * 1024 + 1023

---------------------------------------------------------------------------
(* The sizing policy *)

\* thread t is in an entry point that was given no target dimensions
NoTarget(t) ==
    \/ fn[t] \in { "compress_image", "compress_image_with_format",
                   "auto_compress_image" }
    \/ /\ fn[t] \in { "compress_image_with_size",
                      "compress_image_with_size_and_format" }
       /\ arg[t].target_width <= 0
       /\ arg[t].target_height <= 0

\* the call of thread t has decoded its image
Decoded(t) == loc[t].width > 0 /\ loc[t].height > 0

Abs(x) == IF x < 0 THEN -x ELSE x

\* C9: with no target dimensions and max(width, height) <= 6000 the call
\* plans no resize (scale 1.0) and makes none, and every encoder call is
\* given the caller's quality (for PNG, the compression level computed from
\* the caller's quality).
C9_NoResizeCallerQuality ==
    \A t \in Threads :
       ( /\ NoTarget(t)
         /\ Decoded(t)
         /\ Max(loc[t].width, loc[t].height) <= 6000 )
          => /\ loc[t].needs_resize = 0
             /\ loc[t].scale = [n |-> 1, d |-> 1]
             /\ pc[t] # "resize"
             /\ ~h[t].resized
             /\ h[t].resizes = 0
             /\ h[t].encodes > 0 =>
                  /\ h[t].encFmt \notin {FORMAT_PNG, FORMAT_GIF} =>
                       h[t].encQ = arg[t].quality
                  /\ h[t].encFmt = FORMAT_PNG =>
                       h[t].encLevel =
                          Max(0, Min(9, 9 - ((arg[t].quality * 9) \div 100)))

\* C9, its case: compress_image at quality 80 has encoded a 4000 x 3000
\* image and returned it
C9_Witness ==
    \E t \in Threads :
       /\ Returned(t, "compress_image")
       /\ result[t].success = 1
       /\ loc[t].width = 4000
       /\ loc[t].height = 3000
       /\ arg[t].quality = 80
       /\ h[t].encQ = 80

\* thread t has computed new dimensions for an image above the cap, with no
\* target dimensions given
Capped(t) ==
    /\ NoTarget(t) \/ fn[t] = "get_image_info"
    /\ Decoded(t)
    /\ Max(loc[t].width, loc[t].height) > 6000
    /\ loc[t].needs_resize = 1

\* C10 as stated: max(new_width, new_height) = 6000 and
\* |new_width/new_height - width/height| < 1e-3
C10_AsStated ==
    \A t \in Threads :
       Capped(t) =>
          /\ Max(loc[t].new_width, loc[t].new_height) = 6000
          /\ loc[t].new_height > 0
          /\ 1000 * Abs(loc[t].new_width * loc[t].height
                          - loc[t].width * loc[t].new_height)
               < loc[t].new_height * loc[t].height

\* C10, amended: the larger side becomes 6000 and the other side is its
\* proportional value cut to an integer, never above it and less than one
\* pixel (at most one) below it:
\* 0 <= other * 6000 / max(width, height) - new_other <= 1
C10_TruncatedProportion ==
    \A t \in Threads :
       Capped(t) =>
          /\ Max(loc[t].new_width, loc[t].new_height) = 6000
          /\ IF loc[t].width > loc[t].height
             THEN /\ loc[t].new_width = 6000
                  /\ loc[t].new_height * loc[t].width <= loc[t].height * 6000
                  /\ loc[t].height * 6000
                       <= (loc[t].new_height + 1) * loc[t].width
             ELSE /\ loc[t].new_height = 6000
                  /\ loc[t].new_width * loc[t].height <= loc[t].width * 6000
                  /\ loc[t].width * 6000
                       <= (loc[t].new_width + 1) * loc[t].height

\* C10, its case: compress_image has planned 6000 x 9 for a 6001 x 10 image
C10_Witness ==
    \E t \in Threads :
       /\ fn[t] = "compress_image"
       /\ loc[t].width = 6001
       /\ loc[t].height = 10
       /\ loc[t].new_width = 6000
       /\ loc[t].new_height = 9

---------------------------------------------------------------------------
(* Explicit target dimensions *)

\* thread t is in one of the two entry points that take target dimensions,
\* was given both, and has decoded its image
BothTargets(t) ==
    /\ fn[t] \in { "compress_image_with_size",
                   "compress_image_with_size_and_format" }
    /\ arg[t].target_width > 0
    /\ arg[t].target_height > 0
    /\ Decoded(t)

\* min(target_width / width, target_height / height)
MinScale(t) ==
    LET sw == Ratio(arg[t].target_width, loc[t].width)
        sh == Ratio(arg[t].target_height, loc[t].height)
    IN  IF RatioLess(sw, sh) THEN sw ELSE sh

\* thread t is about to hand its scale to vips_resize, or has done so
AtResize(t) == pc[t] = "resize" \/ h[t].resized

\* C11 as stated: with both target dimensions given, the scale handed to
\* vips_resize is min(target_width/width, target_height/height), and
\* new_width <= target_width, new_height <= target_height
C11_AsStated ==
    \A t \in Threads :
       (BothTargets(t) /\ AtResize(t)) =>
          /\ RatioEq(loc[t].scale, MinScale(t))
          /\ loc[t].new_width <= arg[t].target_width
          /\ loc[t].new_height <= arg[t].target_height

\* C12 as stated: no resize is requested with a computed new_width or
\* new_height below 1 pixel, or with a scale of 0
C12_AsStated ==
    \A t \in Threads :
       (fn[t] \in SinglePassFns /\ Decoded(t) /\ AtResize(t)) =>
          /\ loc[t].new_width >= 1
          /\ loc[t].new_height >= 1
          /\ loc[t].scale.n > 0

---------------------------------------------------------------------------
(* The cap on pixel dimensions *)

\* the entry points whose scale is a quotient of integers, and the search
CapFns ==
    (SinglePassFns \ {"smart_compress_image_with_format"})
       \cup {"auto_compress_image", "smart_compress_image"}

\* an encoder call has been made on the image of thread t
AtEncoder(t) == h[t].encodes > 0

\* the larger side of the image handed to the encoder, as planned, is at
\* most cap: max(width, height) times the scale handed to vips_resize, if
\* any was
PlannedMaxWithin(t, cap) ==
    LET m == Max(loc[t].width, loc[t].height)
    IN  IF h[t].resized THEN m * h[t].rscale.n <= cap * h[t].rscale.d
        ELSE m <= cap

\* C13 as stated: with no explicit target dimensions the image handed to
\* the encoder has planned max(width, height) <= 6000, in every entry point
C13_AsStated ==
    \A t \in Threads :
       ( /\ fn[t] \in CapFns
         /\ arg[t].target_width <= 0
         /\ arg[t].target_height <= 0
         /\ Decoded(t)
         /\ AtEncoder(t) )
          => PlannedMaxWithin(t, 6000)

\* thread t is in compress_image_with_size with neither target dimension
SizeNoTarget(t) ==
    /\ fn[t] = "compress_image_with_size"
    /\ arg[t].target_width <= 0
    /\ arg[t].target_height <= 0
    /\ Decoded(t)

---------------------------------------------------------------------------
(* The best of the formats: auto_compress_image *)

\* thread t is inside, or has returned from, auto_compress_image
InAuto(t) == fn[t] = "auto_compress_image"

AutoSuccess(t) ==
    Returned(t, "auto_compress_image") /\ result[t].success = 1

\* the GIF candidate has been visited without an encoder call
GifSkipped(t) ==
    loc[t].bands < 3 /\ Len(h[t].visited) = Len(formats_to_try)

\* C15: the running best of auto_compress_image is never larger than the
\* candidate encoded last nor than any successful candidate before it (it is
\* the smallest of them), and a success returns the running best.
C15_SmallestCandidate ==
    \A t \in Threads :
       InAuto(t) =>
          /\ loc[t].best_size = h[t].minOk
          /\ h[t].encSize > 0 => loc[t].best_size <= h[t].encSize
          /\ AutoSuccess(t) =>
               /\ result[t].length = h[t].minOk
               /\ result[t].length > 0

\* C15, its case: a success of 1024 bytes although the candidate encoded
\* last succeeded with 8192 bytes
C15_Witness ==
    \E t \in Threads :
       /\ AutoSuccess(t)
       /\ result[t].length = 1024
       /\ h[t].encSize = 8192
       /\ h[t].encFmt = FORMAT_GIF

\* C16: the candidates are visited in the order WEBP, JPEG, JXL, HEIF, JP2K,
\* TIFF, PNG, GIF, each once, with one encoder call each (none for GIF on an
\* image of fewer than 3 bands) given the caller's quality (for PNG the
\* compression level computed from it; the GIF encoder takes none), and the
\* buffer held as best is that of the earliest candidate of the smallest
\* size.
C16_FixedOrderFirstSmallest ==
    \A t \in Threads :
       InAuto(t) =>
          /\ IsPrefix(h[t].visited, formats_to_try)
          /\ Len(h[t].visited) = (IF pc[t] = "ret" /\ h[t].srgb
                                  THEN Len(formats_to_try) ELSE loc[t].i)
          /\ h[t].encodes
               = Len(h[t].visited) - (IF GifSkipped(t) THEN 1 ELSE 0)
          /\ h[t].encodes > 0 =>
               /\ h[t].encFmt \in
                    { h[t].visited[k] : k \in 1..Len(h[t].visited) }
               /\ h[t].encFmt \notin {FORMAT_PNG, FORMAT_GIF} =>
                    h[t].encQ = arg[t].quality
               /\ h[t].encFmt = FORMAT_PNG =>
                    h[t].encLevel =
                       Max(0, Min(9, 9 - ((arg[t].quality * 9) \div 100)))
          /\ loc[t].best_data = h[t].minId

\* C16, its case: WEBP and JPEG both succeeded with the smallest size and
\* the buffer returned is the one of WEBP, the first candidate
C16_Witness ==
    \E t \in Threads :
       /\ AutoSuccess(t)
       /\ h[t].visited = formats_to_try
       /\ loc[t].best_data = 1
       /\ result[t].length = 1024
       /\ h[t].encSize = 1024

\* C17: auto_compress_image, once in its loop, visits every candidate
\* whatever fails; it returns success exactly when some candidate encode
\* succeeded, and {NULL, 0, -1} when none did.
C17_SuccessIffSomeCandidate ==
    \A t \in Threads :
       Returned(t, "auto_compress_image") =>
          /\ result[t].success = 1 <=> h[t].minOk # 0
          /\ h[t].minOk = 0 => result[t] = FailResult
          /\ Len(h[t].visited) > 0 => h[t].visited = formats_to_try

\* C17, its case: the first candidate succeeded, the last one failed, and
\* the call returned the first one's buffer
C17_Witness ==
    \E t \in Threads :
       /\ AutoSuccess(t)
       /\ loc[t].best_data = 1
       /\ h[t].encFmt = FORMAT_GIF
       /\ h[t].encSize = 0

\* C18: at most two encoded buffers are ever live in auto_compress_image,
\* none is freed twice, and on return the only buffer not freed is the one
\* returned to the caller.
C18_BuffersFreedOnce ==
    \A t \in Threads :
       InAuto(t) =>
          /\ h[t].maxLive <= 2
          /\ Cardinality(h[t].live) <= 2
          /\ ~h[t].doubleFree
          /\ h[t].live = {loc[t].best_data, loc[t].buffer} \ {0}
          /\ pc[t] = "ret" =>
               /\ h[t].live = {loc[t].best_data} \ {0}
               /\ result[t].success = 1 <=> loc[t].best_data # 0

\* C18, its case: a call that had two buffers live at once, a failed encode
\* that left a buffer behind included, and returned one
C18_Witness ==
    \E t \in Threads :
       /\ AutoSuccess(t)
       /\ h[t].maxLive = 2
       /\ h[t].live = {3}
       /\ h[t].encSize = 0

---------------------------------------------------------------------------
(* Format detection: detect_format_from_path as a function of its input *)

\* the table of the extensions, as the specification gives it
ExtTable ==
    { [ext |-> <<"j", "p", "g">>, format |-> FORMAT_JPEG],
      [ext |-> <<"j", "p", "e", "g">>, format |-> FORMAT_JPEG],
      [ext |-> <<"p", "n", "g">>, format |-> FORMAT_PNG],
      [ext |-> <<"w", "e", "b", "p">>, format |-> FORMAT_WEBP],
      [ext |-> <<"t", "i", "f", "f">>, format |-> FORMAT_TIFF],
      [ext |-> <<"t", "i", "f">>, format |-> FORMAT_TIFF],
      [ext |-> <<"h", "e", "i", "f">>, format |-> FORMAT_HEIF],
      [ext |-> <<"h", "e", "i", "c">>, format |-> FORMAT_HEIF],
      [ext |-> <<"j", "p", "2">>, format |-> FORMAT_JP2K],
      [ext |-> <<"j", "2", "k">>, format |-> FORMAT_JP2K],
      [ext |-> <<"j", "x", "l">>, format |-> FORMAT_JXL],
      [ext |-> <<"g", "i", "f">>, format |-> FORMAT_GIF] }

\* the uppercase letter of a lowercase one
ToUpper(c) ==
    IF \E k \in 1..Len(LowerChars) : LowerChars[k] = c
    THEN UpperChars[CHOOSE k \in 1..Len(LowerChars) : LowerChars[k] = c]
    ELSE c

\* every way of writing name in upper and lower case
RECURSIVE CaseVariants(_)
CaseVariants(name) ==
    IF name = << >> THEN { << >> }
    ELSE { <<c>> \o rest : c \in {Head(name), ToUpper(Head(name))},
                           rest \in CaseVariants(Tail(name)) }

\* extensions outside the table: none after the dot, unknown ones, a known
\* one with a character more or less, one longer than the 9 characters kept
UnknownExts ==
    { <<>>,
      <<"b", "m", "p">>,
      <<"j", "p", "g", "x">>,
      <<"p", "n">>,
      <<"j", "p", "g", " ">>,
      <<"p", "n", "g", "j", "p", "g">>,
      <<"j", "p", "e", "g", "j", "p", "e", "g", "j", "p", "e", "g">>,
      <<"a", "u", "t", "o">> }

\* what stands before the last dot: nothing, a name, a directory with a dot
\* in its name, a name with a dot
Stems ==
    { <<>>,
      <<"a">>,
      <<"p", "h", "o", "t", "o">>,
      <<"d", ".", "p", "n", "g", "/", "f">>,
      <<"a", ".", "g", "i", "f">> }

\* paths without any dot
NoDotPaths ==
    { <<>>,
      <<"p", "n", "g">>,
      <<"a", "/", "b">>,
      <<"j", "p", "g">> }

\* the inputs of detect_format_from_path: NULL and the paths
DetectInputs ==
    {NullStr}
      \cup { CStr(p) : p \in NoDotPaths }
      \cup { CStr(stem \o <<".">> \o ext) :
               stem \in Stems,
               ext \in UnknownExts
                         \cup UNION { CaseVariants(e.ext) : e \in ExtTable } }
      \cup { CStr(<<"d", ".", "p", "n", "g", "/", "f">>) }

\* a caller calls detect_format_from_path and is handed the format
DetectCall(t) ==
    /\ pc[t] = "idle"
    /\ \E input_path \in DetectInputs :
         /\ fn' = [fn EXCEPT ![t] = "detect_format_from_path"]
         /\ arg' = [arg EXCEPT ![t] = [NoArg EXCEPT !.path = input_path]]
         /\ result' = [result EXCEPT ![t] =
                         [format |-> detect_format_from_path(input_path)]]
         /\ pc' = [pc EXCEPT ![t] = "ret"]
    /\ UNCHANGED <<loc, h, vips_mutex, vips_initialized>>

\* one caller of detect_format_from_path
NextDetect == DetectCall(1) \/ Return(1)

DetectSpec == Init /\ [][NextDetect]_vars

\* the text after the last '.' of chars: the suffix without a dot that
\* follows a dot
AfterLastDot(chars) ==
    CHOOSE s \in { SubSeq(chars, k, Len(chars)) : k \in 2..(Len(chars) + 1) } :
       /\ \A i \in 1..Len(s) : s[i] # "."
       /\ chars[Len(chars) - Len(s)] = "."

HasDot(chars) == \E i \in 1..Len(chars) : chars[i] = "."

\* text is name, compared case-insensitively (name is in lowercase)
SameIgnoringCase(text, name) ==
    /\ Len(text) = Len(name)
    /\ \A i \in 1..Len(name) : text[i] \in {name[i], ToUpper(name[i])}

\* the format the table gives for an input: JPEG for NULL, for a path
\* without a dot and for an extension outside the table
TableFormat(input_path) ==
    IF input_path.null \/ ~HasDot(input_path.chars) THEN FORMAT_JPEG
    ELSE LET text == AfterLastDot(input_path.chars)
             rows == { e \in ExtTable : SameIgnoringCase(text, e.ext) }
         IN  IF rows = {} THEN FORMAT_JPEG
             ELSE (CHOOSE e \in rows : TRUE).format

\* C19: detect_format_from_path returns, for every input, the format the
\* table gives for the text after the last '.' compared case-insensitively,
\* JPEG for any other, missing or NULL input, and never FORMAT_AUTO.
C19_DetectByExtension ==
    \A t \in Threads :
       Returned(t, "detect_format_from_path") =>
          /\ result[t].format = TableFormat(arg[t].path)
          /\ result[t].format \in FORMAT_JPEG..FORMAT_GIF
          /\ result[t].format # FORMAT_AUTO

\* C19, its case: "photo.HEIC" is detected as HEIF
C19_Witness ==
    \E t \in Threads :
       /\ Returned(t, "detect_format_from_path")
       /\ arg[t].path = CStr(<<"p", "h", "o", "t", "o", ".", "H", "E", "I", "C">>)
       /\ result[t].format = FORMAT_HEIF

---------------------------------------------------------------------------
(* The format handed to the encoder *)

\* thread t is in an entry point that takes a format and has passed its
\* argument checks
InFormatCall(t) ==
    fn[t] \in FormatFns /\ (pc[t] # "ret" \/ h[t].loads > 0)

\* C20: in the entry points that take a format, FORMAT_AUTO has been
\* replaced by the format detected from the path before the decode, every
\* encoder call is for one of the eight concrete formats, and a format
\* outside them ends in failure with no encoder call, the image released
\* and the mutex unlocked.
C20_AutoResolvedBeforeEncode ==
    \A t \in Threads :
       InFormatCall(t) =>
          /\ loc[t].format # FORMAT_AUTO
          /\ arg[t].format = FORMAT_AUTO =>
               loc[t].format = detect_format_from_path(PathString(arg[t].path))
          /\ arg[t].format # FORMAT_AUTO => loc[t].format = arg[t].format
          /\ h[t].encodes > 0 =>
               /\ h[t].encFmt = loc[t].format
               /\ h[t].encFmt \in FORMAT_JPEG..FORMAT_GIF
          /\ (pc[t] = "ret" /\ loc[t].format \notin FORMAT_JPEG..FORMAT_GIF) =>
               /\ result[t] = FailResult
               /\ h[t].encodes = 0
               /\ LiveHandles(h[t]) = 0
               /\ vips_mutex = 0

\* C20, its case: compress_image_with_format("photo.HEIC", 80, FORMAT_AUTO)
\* has encoded with the HEIF encoder and returned the buffer
C20_Witness ==
    \E t \in Threads :
       /\ Returned(t, "compress_image_with_format")
       /\ arg[t].format = FORMAT_AUTO
       /\ arg[t].path = HeicPath
       /\ h[t].encFmt = FORMAT_HEIF
       /\ result[t].success = 1

\* C20, its other case: a format outside the enumeration went through the
\* decode and ended at the default branch of the switch
C20_WitnessUnsupported ==
    \E t \in Threads :
       /\ Returned(t, "compress_image_with_format")
       /\ arg[t].format = 9
       /\ h[t].srgb
       /\ result[t] = FailResult

---------------------------------------------------------------------------
(* The returned result *)

\* the entry points that return a CompressedImageResult
ResultFns == SinglePassFns \cup {"smart_compress_image", "auto_compress_image"}

\* the result is the initial {NULL, 0, -1}
IsFailure(r) == r.success = -1 /\ r.data = NULL /\ r.length = 0

\* the result carries a buffer with bytes in it
IsSuccess(r) == r.success = 1 /\ r.data # NULL /\ r.length > 0

\* C21: every CompressedImageResult an entry point returns is either the
\* failure {NULL, 0, -1} or a success with a buffer and a positive length;
\* a success is the buffer of the call's last encoder call, which returned 0.
C21_ResultWellFormed ==
    \A t \in Threads :
       (pc[t] = "ret" /\ fn[t] \in ResultFns) =>
          /\ IsFailure(result[t]) \/ IsSuccess(result[t])
          /\ IsSuccess(result[t]) =>
               /\ h[t].encodes > 0
               /\ fn[t] # "auto_compress_image" =>
                    result[t].length = h[t].encSize
               /\ fn[t] = "auto_compress_image" =>
                    result[t].length = h[t].minOk

\* C21, its case: a call whose encoder failed after the decode returned the
\* failure result
C21_Witness ==
    \E t \in Threads :
       /\ pc[t] = "ret"
       /\ fn[t] \in ResultFns
       /\ h[t].encodes > 0
       /\ h[t].encSize = 0
       /\ IsFailure(result[t])

---------------------------------------------------------------------------
(* Image handles *)

\* C22: on every exit path of every entry point, and of the search of
\* vips_smart_wrapper.c, each image handle created during the call has had
\* every one of its references released by the time the call returns, a
\* trial of a search begins with no handle of an earlier trial live, and no
\* handle is ever unreferenced without a reference left.
C22_HandlesReleasedOnce ==
    \A t \in Threads :
       /\ ~h[t].badUnref
       /\ pc[t] \in {"ret", "s_load", "w_load"} =>
            \A id \in 1..Len(h[t].refs) : h[t].refs[id] = 0

\* C22, its case: compress_image_with_size_and_format resized the image and
\* then failed at the sRGB copy; the decoded and the resized handle were
\* both created and both released
C22_Witness ==
    \E t \in Threads :
       /\ Returned(t, "compress_image_with_size_and_format")
       /\ h[t].resized
       /\ h[t].copies = 1
       /\ ~h[t].srgb
       /\ h[t].refs = <<0, 0>>
       /\ result[t] = FailResult

\* C22, another case: the wrapper's search without a resize held two
\* references to the one decoded handle and released both
C22_WitnessWrapper ==
    \E t \in Threads :
       /\ Returned(t, WrapperFn)
       /\ ~h[t].resized
       /\ h[t].encodes = 1
       /\ h[t].refs = <<0>>

---------------------------------------------------------------------------
(* No retry within a single pass *)

\* the call of thread t asked for a resize, or for the sRGB copy, and the
\* codec refused it
TransformFailed(t) ==
    \/ h[t].resizes > 0 /\ ~h[t].resized
    \/ h[t].copies > 0 /\ ~h[t].srgb

\* C23, as stated: a single-pass call whose resize or sRGB copy failed
\* invokes no encoder and returns failure, and no single-pass call invokes
\* the encoder more than once.
C23_AsStated ==
    \A t \in Threads :
       fn[t] \in SinglePassFns =>
          /\ TransformFailed(t) =>
               /\ h[t].encodes = 0
               /\ pc[t] = "ret" /\ result[t] = FailResult
          /\ h[t].encodes <= 1

---------------------------------------------------------------------------
(* Argument checks *)

\* the compression entry points that take a quality
QualityArgFns ==
    QualityFns \cup QualityFormatFns
      \cup {"compress_image_with_size", "compress_image_with_size_and_format"}

\* the call of thread t was made with a NULL or empty path, or with a
\* quality outside 1..100
BadPathOrQuality(t) ==
    \/ arg[t].path \in {NULL, ""}
    \/ arg[t].quality < 1
    \/ arg[t].quality > 100

\* C24, as stated: a compression entry point that takes a quality, called
\* with a NULL or empty path or a quality outside 1..100, never holds the
\* mutex, never decodes or encodes, and returns failure.
C24_AsStated ==
    \A t \in Threads :
       (fn[t] \in QualityArgFns /\ BadPathOrQuality(t)) =>
          /\ vips_mutex # t
          /\ h[t].loads = 0
          /\ h[t].encodes = 0
          /\ pc[t] = "ret" => result[t] = FailResult

\* the part of C24 the code keeps: the six entry points that check their
\* arguments return failure at once
C24_CheckedEntryPoints ==
    \A t \in Threads :
       (fn[t] \in QualityArgFns \cap PathCheckFns /\ BadPathOrQuality(t)) =>
          /\ pc[t] = "ret"
          /\ result[t] = FailResult
          /\ h[t] = NoHist
          /\ vips_mutex = 0

\* the two entry points that take a target size
TargetSizeFns == {"smart_compress_image", "smart_compress_image_with_format"}

\* C25, as stated: smart_compress_image and smart_compress_image_with_format
\* called with target_kb <= 0 decode nothing, encode nothing and return
\* failure.
C25_AsStated ==
    \A t \in Threads :
       (fn[t] \in TargetSizeFns /\ arg[t].target_kb <= 0) =>
          /\ h[t].loads = 0
          /\ h[t].encodes = 0
          /\ pc[t] = "ret" => result[t] = FailResult

\* the part of C25 the code keeps: smart_compress_image returns failure at
\* once
C25_SearchRejectsTarget ==
    \A t \in Threads :
       (fn[t] = "smart_compress_image" /\ arg[t].target_kb <= 0) =>
          /\ pc[t] = "ret"
          /\ result[t] = FailResult
          /\ h[t] = NoHist

---------------------------------------------------------------------------
(* Initialization of the engine *)

\* thread t is inside ensure_vips_initialized with the mutex held, and a
\* thread about to call VIPS_INIT finds the engine not initialized
InitGuarded(t) ==
    /\ pc[t] \in {"ensure_cs", "vips_init"} => vips_mutex = t
    /\ pc[t] = "vips_init" => vips_initialized = 0

\* one step as seen from thread t's call of ensure_vips_initialized
InitStep(t) ==
    \* the check: VIPS_INIT is tried exactly when the flag is 0; a caller
    \* that finds it 1 leaves it 1, unlocks and goes on
    /\ (pc[t] = "ensure_cs" /\ pc'[t] # "ensure_cs") =>
          IF vips_initialized = 0
          THEN pc'[t] = "vips_init" /\ vips_initialized' = 0
          ELSE pc'[t] = "lock" /\ vips_initialized' = 1 /\ vips_mutex' = 0
    \* VIPS_INIT: success sets the flag; failure leaves it 0 and the entry
    \* point returns; the mutex is released either way
    /\ (pc[t] = "vips_init" /\ pc'[t] # "vips_init") =>
          /\ vips_mutex' = 0
          /\ \/ pc'[t] = "lock" /\ vips_initialized' = 1
             \/ pc'[t] \in {"idle", "ret"} /\ vips_initialized' = 0

\* C26: the engine is initialized once, whatever the interleaving of the
\* callers of ensure_vips_initialized: the flag goes from 0 to 1 only by the
\* VIPS_INIT of the one thread that holds the mutex and found the flag 0,
\* every other caller finds it 1 and does not initialize, and a failed
\* VIPS_INIT leaves the flag 0 and the mutex released, so that the next
\* caller tries VIPS_INIT again.
C26_InitOnce ==
    /\ [](\A t \in Threads : InitGuarded(t))
    /\ [][/\ \A t \in Threads : InitStep(t)
          /\ (vips_initialized = 0 /\ vips_initialized' = 1) =>
                \E t \in Threads :
                   /\ pc[t] = "vips_init"
                   /\ vips_mutex = t
                   /\ \A u \in Threads \ {t} : pc'[u] = pc[u]]_vars

\* C26, its case: of two concurrent callers one has performed VIPS_INIT and
\* left ensure_vips_initialized, and the other is inside it and finds
\* vips_initialized == 1
C26_Witness ==
    \E t, u \in Threads :
       /\ t # u
       /\ pc[t] = "lock"
       /\ pc[u] = "ensure_cs"
       /\ vips_initialized = 1

\* C26, the race itself: one first caller is about to call VIPS_INIT while
\* another waits for the mutex with the engine still not initialized
C26_WitnessRace ==
    \E t, u \in Threads :
       /\ t # u
       /\ pc[t] = "vips_init"
       /\ pc[u] = "ensure"
       /\ vips_initialized = 0

---------------------------------------------------------------------------
(* Completion of every call *)

\* the positions at which a thread is between a pthread_mutex_lock and the
\* pthread_mutex_unlock that follows it
LockedPcs ==
    { "ensure_cs", "vips_init", "load", "resize", "copy", "encode",
      "encode2", "s_load", "s_resize", "s_copy", "s_encode", "a_encode",
      "i_load", "i_copy", "t_black", "t_save", "sd_cs" }

\* the mutex is held exactly by a thread that is inside a locked section
MutexHeldInside ==
    /\ vips_mutex # 0 => pc[vips_mutex] \in LockedPcs
    /\ \A t \in Threads : pc[t] \in LockedPcs => vips_mutex = t

---------------------------------------------------------------------------
(* GIF *)

\* the entry points that can call the GIF encoder
GifFns == FormatFns \cup {"auto_compress_image"}

\* C28, as stated: in the entry points that can encode GIF, the handle
\* given to the GIF encoder has not been through the sRGB copy, and the
\* handle given to any other encoder has.
C28_AsStated ==
    \A t \in Threads :
       (fn[t] \in GifFns /\ h[t].encodes > 0) =>
          (h[t].encFmt = FORMAT_GIF <=> ~h[t].srgb)

\* the part of C28 the code keeps: the entry points that take a format
\* skip the sRGB copy exactly for GIF
C28_FormatEntryPoints ==
    \A t \in Threads :
       (fn[t] \in FormatFns /\ h[t].encodes > 0) =>
          /\ h[t].encFmt = FORMAT_GIF <=> ~h[t].srgb
          /\ h[t].encFmt = FORMAT_GIF <=> h[t].copies = 0

\* C29, as stated: in the entry points that can select GIF, the GIF encoder
\* is never called on an image with fewer than 3 bands.
C29_AsStated ==
    \A t \in Threads :
       (fn[t] \in GifFns /\ h[t].encodes > 0 /\ h[t].encFmt = FORMAT_GIF) =>
          loc[t].bands >= 3

\* the part of C29 the code keeps: compress_image_with_size_and_format and
\* auto_compress_image do not call the GIF encoder below 3 bands, and the
\* former then returns failure
C29_GuardedEntryPoints ==
    \A t \in Threads :
       /\ (fn[t] \in GifGuardFns /\ h[t].encodes > 0
             /\ h[t].encFmt = FORMAT_GIF) => loc[t].bands >= 3
       /\ (Returned(t, "compress_image_with_size_and_format")
             /\ loc[t].format = FORMAT_GIF /\ h[t].loads > 0
             /\ loc[t].bands < 3) =>
            result[t] = FailResult /\ h[t].encodes = 0

---------------------------------------------------------------------------
(* The PNG compression level *)

\* the three entry points whose PNG level falls as the quality rises
PngInvertedFns ==
    { "compress_image_with_format", "compress_image_with_size_and_format",
      "auto_compress_image" }

\* every quality the argument check lets through
PngQualities == 1..100

\* PNG calls of the three entry points at every quality, on one small image
PngEnv ==
    [calls |->
       { [fn |-> f, arg |-> Arg(ValidPath, q, 0, 0, 0, 0, FORMAT_PNG, NULL)] :
           f \in PngInvertedFns, q \in PngQualities },
     images |-> { Image(49, 49, 3) },
     searchImages |-> { },
     sizes |-> { 2048 },
     smartSizes |-> { },
     fileSizes |-> { },
     orientations |-> { 0 },
     observe |-> TRUE]

\* one caller of the three entry points
NextPng ==
    \/ Call(1, PngEnv)
    \/ EnsureLock(1)
    \/ EnsureInit(1, PngEnv)
    \/ VipsInit(1, PngEnv)
    \/ Lock(1)
    \/ Load(1, PngEnv)
    \/ Copy(1, PngEnv)
    \/ Encode(1, PngEnv)
    \/ AutoEncode(1, PngEnv)
    \/ Return(1)

PngSpec == Init /\ [][NextPng]_vars

\* the last encoder call of thread t was the PNG encoder of one of the
\* three entry points
PngEncoded(t) ==
    /\ fn[t] \in PngInvertedFns
    /\ h[t].encodes > 0
    /\ h[t].encFmt = FORMAT_PNG

\* n/d rounded to the nearest integer, halves upwards
Round(n, d) == (2 * n + d) \div (2 * d)

\* C30, as stated: the PNG level is 9 - round(q * 9 / 100) and lies in 0..9.
C30_AsStated ==
    \A t \in Threads :
       PngEncoded(t) =>
          /\ h[t].encLevel = 9 - Round(arg[t].quality * 9, 100)
          /\ h[t].encLevel \in 0..9

\* C30, amended: the PNG level is 9 minus the whole part of q * 9 / 100:
\* the one level L in 0..9 with 100 * (9 - L) <= 9 * q < 100 * (10 - L).
C30_TruncatedLevel ==
    \A t \in Threads :
       PngEncoded(t) =>
          /\ h[t].encLevel \in 0..9
          /\ 100 * (9 - h[t].encLevel) <= 9 * arg[t].quality
          /\ 9 * arg[t].quality < 100 * (10 - h[t].encLevel)

\* C30, its case: at quality 6 the quotient is 0.54 and the PNG encoder was
\* given level 9, where rounding the quotient would give level 8
C30_Witness ==
    \E t \in Threads :
       /\ PngEncoded(t)
       /\ arg[t].quality = 6
       /\ h[t].encLevel = 9

\* the last encoder call of thread t was a PNG encode, in any entry point
AnyPngEncoded(t) ==
    /\ fn[t] \in GifFns
    /\ h[t].encodes > 0
    /\ h[t].encFmt = FORMAT_PNG

\* C31, as stated: in every PNG encode path the level does not rise with the
\* quality in effect, and it is the level every other entry point uses for
\* that quality.
C31_AsStated ==
    \A t \in Threads :
       AnyPngEncoded(t) =>
          /\ \A q \in 1..loc[t].quality :
                PngLevel(fn[t], q) >= h[t].encLevel
          /\ \A f \in GifFns : PngLevel(f, loc[t].quality) = h[t].encLevel

---------------------------------------------------------------------------
(* The aggressive policy: "image_compressor copy.c" *)

\* result.data = buffer; result.length = buffer_size; result.success = 0
AggrOkResult(size) == [data |-> "buffer", length |-> size, success |-> 0]

\* compress_image hands the call on by file size before its own body runs:
\* the function whose body serves a call of entry point f
AggrBody(f, file_size) ==
    IF f # AggrCompressImage THEN f
    ELSE IF file_size > 20000000 THEN AggrExtremelyLargeImage
    ELSE IF file_size > 8000000 THEN AggrLargeImage
    ELSE AggrCompressImage

\* compress_image: if (file_size > 15000000) is_extremely_large = 1
IsExtremelyLarge(file_size) == file_size > 15000000

\* compress_image: else if (file_size > 8000000) is_very_large = 1
IsVeryLarge(file_size) ==
    ~IsExtremelyLarge(file_size) /\ file_size > 8000000

\* int max_dimension of each body
AggrMaxDimension(body, file_size) ==
    CASE body = AggrCompressImage ->
           IF IsExtremelyLarge(file_size) THEN 3000
           ELSE IF IsVeryLarge(file_size) THEN 4000
           ELSE 6000
      [] body \in {AggrLargeImage, AggrLargeDslrImage} ->
           IF file_size > 15000000 THEN 2500
           ELSE IF file_size > 8000000 THEN 3500
           ELSE 6000
      [] body = AggrExtremelyLargeImage ->
           IF file_size > 25000000 THEN 1500 ELSE 2000

\* compress_image resizes above max_dimension and in its two file-size
\* tiers; the other bodies call vips_resize whatever the dimensions
AggrNeedsResize(body, file_size, width, height) ==
    \/ body # AggrCompressImage
    \/ width > AggrMaxDimension(body, file_size)
    \/ height > AggrMaxDimension(body, file_size)
    \/ IsVeryLarge(file_size)
    \/ IsExtremelyLarge(file_size)

\* scale = (double)max_dimension / width, or / height
AggrScale(md, width, height) ==
    IF width > height THEN Ratio(md, width) ELSE Ratio(md, height)

\* (int)((double)side * max_dimension / larger): the product is exact in a
\* double and the quotient, when no integer, is further from one than the
\* rounding error
AggrNewSide(side, md, larger) == (side * md) \div larger

\* the sizing plan of a body on a decoded image
AggrPlan(body, file_size, width, height) ==
    LET md == AggrMaxDimension(body, file_size)
    IN  IF ~AggrNeedsResize(body, file_size, width, height)
        THEN Plan(0, Ratio(1, 1), width, height)
        ELSE IF body # AggrCompressImage
        THEN Plan(1, AggrScale(md, width, height), 0, 0)
        ELSE IF width > height
        THEN Plan(1, AggrScale(md, width, height),
                  md, AggrNewSide(height, md, width))
        ELSE Plan(1, AggrScale(md, width, height),
                  AggrNewSide(width, md, height), md)

\* the sides vips_resize may give an image side x at scale s: x * s rounded
\* down or up, and one pixel at least
AggrResizedSides(x, s) ==
    LET lo == (x * s.n) \div s.d
        hi == IF (x * s.n) % s.d = 0 THEN lo ELSE lo + 1
    IN  { Max(lo, 1), Max(hi, 1) }

\* quality > c ? c : quality
AggrCap(quality, c) == IF quality > c THEN c ELSE quality

\* int final_quality of each body
AggrFinalQuality(body, quality, file_size, final_width, final_height) ==
    CASE body = AggrCompressImage ->
           IF IsExtremelyLarge(file_size) THEN AggrCap(quality, 60)
           ELSE IF IsVeryLarge(file_size) THEN AggrCap(quality, 75)
           ELSE IF final_width * final_height > 16000000
           THEN AggrCap(quality, 85)
           ELSE IF final_width * final_height > 8000000
           THEN AggrCap(quality, 90)
           ELSE quality
      [] body = AggrLargeImage ->
           IF file_size > 15000000 THEN AggrCap(quality, 50)
           ELSE IF file_size > 8000000 THEN AggrCap(quality, 65)
           ELSE quality
      [] body = AggrLargeDslrImage ->
           IF file_size > 15000000 THEN AggrCap(quality, 55)
           ELSE IF file_size > 8000000 THEN AggrCap(quality, 70)
           ELSE quality
      [] body = AggrExtremelyLargeImage -> AggrCap(quality, 40)

\* the checks of an entry point before ensure_vips_initialized: compress_image
\* checks the path and the quality, and all four fopen() the path
AggrValidate(f, a) ==
    /\ f = AggrCompressImage =>
          /\ a.path \notin {NULL, ""}
          /\ a.quality >= 1 /\ a.quality <= 100
    /\ Readable(a.path)

\* the body that serves thread t
BodyOf(t) == AggrBody(fn[t], loc[t].file_size)

\* a thread calls an entry point of the aggressive policy on a file of
\* file_size bytes (fseek, ftell)
AggrCall(t, env) ==
    /\ pc[t] = "idle"
    /\ \E c \in env.calls :
         LET ok == AggrValidate(c.fn, c.arg)
         IN  /\ fn' = [fn EXCEPT ![t] = c.fn]
             /\ arg' = [arg EXCEPT ![t] = c.arg]
             /\ pc' = [pc EXCEPT ![t] = IF ok THEN "ensure" ELSE "ret"]
             /\ loc' = [loc EXCEPT ![t] =
                          [NoLoc EXCEPT !.file_size =
                                          IF ok THEN c.file_size ELSE 0]]
             /\ h' = [h EXCEPT ![t] = NoHist]
             /\ result' = [result EXCEPT ![t] =
                             IF ok THEN NoResult ELSE FailResult]
    /\ UNCHANGED <<vips_mutex, vips_initialized>>

\* vips_image_new_from_file; compress_image checks the dimensions; the
\* sizing plan
AggrLoad(t, env) ==
    /\ pc[t] = "g_load"
    /\ \E img \in env.images \cup {NullImage} :
         LET hh == [h[t] EXCEPT !.loads = @ + 1]
             p == AggrPlan(BodyOf(t), loc[t].file_size, img.width, img.height)
         IN  IF img = NullImage
             THEN Unlock(t, FailResult, loc[t], hh, env)
             ELSE IF BodyOf(t) = AggrCompressImage
                     /\ (img.width <= 0 \/ img.height <= 0 \/ img.bands <= 0)
             THEN Unlock(t, FailResult, loc[t], UnrefImage(NewHandle(hh)), env)
             ELSE /\ Goto(t, IF p.needs_resize = 1 THEN "g_resize"
                             ELSE "g_copy",
                          [loc[t] EXCEPT !.width = img.width,
                                         !.height = img.height,
                                         !.bands = img.bands,
                                         !.needs_resize = p.needs_resize,
                                         !.scale = p.scale,
                                         !.new_width = p.new_width,
                                         !.new_height = p.new_height],
                          NewHandle(hh))
                  /\ UNCHANGED vips_mutex
    /\ UNCHANGED vips_initialized

\* vips_resize(image, &processed_image, scale, ...); compress_image reads
\* the new width and height back from the image
AggrResize(t, env) ==
    /\ pc[t] = "g_resize"
    /\ \E ok \in BOOLEAN :
         LET hh == [h[t] EXCEPT !.resizes = @ + 1]
         IN  IF ok
             THEN \E w \in AggrResizedSides(loc[t].width, loc[t].scale),
                     hg \in AggrResizedSides(loc[t].height, loc[t].scale) :
                  /\ Goto(t, "g_copy",
                          IF BodyOf(t) = AggrCompressImage
                          THEN [loc[t] EXCEPT !.width = w, !.height = hg]
                          ELSE loc[t],
                          [ReplaceImage(hh) EXCEPT !.resized = TRUE,
                                                   !.rscale = loc[t].scale])
                  /\ UNCHANGED vips_mutex
             ELSE Unlock(t, FailResult, loc[t], UnrefImage(hh), env)
    /\ UNCHANGED vips_initialized

\* vips_copy(image, ..., "interpretation", VIPS_INTERPRETATION_sRGB)
AggrCopy(t, env) ==
    /\ pc[t] = "g_copy"
    /\ \E ok \in BOOLEAN :
         LET hh == [h[t] EXCEPT !.copies = @ + 1]
         IN  IF ok
             THEN /\ Goto(t, "g_encode", loc[t],
                          [ReplaceImage(hh) EXCEPT !.srgb = TRUE])
                  /\ UNCHANGED vips_mutex
             ELSE Unlock(t, FailResult, loc[t], UnrefImage(hh), env)
    /\ UNCHANGED vips_initialized

\* vips_jpegsave_buffer at final_quality; when it fails, compress_image goes
\* on to a second attempt and the other bodies return failure
AggrEncode(t, env) ==
    /\ pc[t] = "g_encode"
    /\ \E o \in EncodeOutcomes(env.sizes) :
         LET q == AggrFinalQuality(BodyOf(t), arg[t].quality,
                                   loc[t].file_size,
                                   loc[t].width, loc[t].height)
             l == [loc[t] EXCEPT !.quality = q]
             buffer == IF o.buf THEN h[t].encodes + 1 ELSE 0
             hh == AllocBuffer(Encoded(h[t], fn[t], FORMAT_JPEG, q, o),
                               buffer)
         IN  IF EncodeSucceeded(o)
             THEN Unlock(t, AggrOkResult(o.size), l, UnrefImage(hh), env)
             ELSE IF BodyOf(t) = AggrCompressImage
             THEN \* if (buffer) g_free(buffer)
                  /\ Goto(t, "g_encode2", l, FreeBuffer(hh, buffer))
                  /\ UNCHANGED vips_mutex
             ELSE \* the other bodies leave the buffer as it is
                  Unlock(t, FailResult, l, UnrefImage(hh), env)
    /\ UNCHANGED vips_initialized

\* compress_image, "try with standard quality": vips_jpegsave_buffer at the
\* quality the caller asked for
AggrEncodeRetry(t, env) ==
    /\ pc[t] = "g_encode2"
    /\ \E o \in EncodeOutcomes(env.sizes) :
         LET buffer == IF o.buf THEN h[t].encodes + 1 ELSE 0
             hh == AllocBuffer(Encoded(h[t], fn[t], FORMAT_JPEG,
                                       arg[t].quality, o), buffer)
         IN  IF EncodeSucceeded(o)
             THEN Unlock(t, AggrOkResult(o.size), loc[t], UnrefImage(hh), env)
             ELSE \* if (buffer) g_free(buffer)
                  Unlock(t, FailResult, loc[t],
                         UnrefImage(FreeBuffer(hh, buffer)), env)
    /\ UNCHANGED vips_initialized

\* file sizes on both sides of every threshold of the policy
AggrFileSizes ==
    { 1000000, 8000000, 8000001, 15000000, 15000001, 20000000, 20000001,
      25000000, 25000001 }

\* qualities on both sides of every ceiling, and outside 1..100
AggrQualities ==
    { 0, 1, 40, 41, 50, 51, 55, 56, 60, 61, 65, 66, 70, 71, 75, 76, 85, 86,
      90, 91, 100, 101 }

\* images on both sides of 8 and of 16 megapixels, above the 6000 cap, and
\* below every cap
AggrImages ==
    { Image(1000, 500, 3), Image(3000, 2000, 3), Image(4000, 2000, 3),
      Image(4000, 2001, 3), Image(4000, 4000, 3), Image(4001, 4000, 3),
      Image(9000, 6000, 3) }

\* the calls of the aggressive policy
AggrEnv ==
    [calls |->
       { [fn |-> f, arg |-> Arg(p, q, 0, 0, 0, 0, 0, NULL), file_size |-> fs] :
           f \in AggrFns, p \in {ValidPath, MissingPath},
           q \in AggrQualities, fs \in AggrFileSizes }
       \cup { [fn |-> AggrCompressImage,
               arg |-> Arg(p, 80, 0, 0, 0, 0, 0, NULL), file_size |-> 0] :
                p \in {NULL, ""} },
     images |-> AggrImages,
     sizes |-> { 2048 },
     observe |-> TRUE]

\* one caller of the aggressive policy
NextAggr ==
    \/ AggrCall(1, AggrEnv)
    \/ EnsureLock(1)
    \/ EnsureInit(1, AggrEnv)
    \/ VipsInit(1, AggrEnv)
    \/ Lock(1)
    \/ AggrLoad(1, AggrEnv)
    \/ AggrResize(1, AggrEnv)
    \/ AggrCopy(1, AggrEnv)
    \/ AggrEncode(1, AggrEnv)
    \/ AggrEncodeRetry(1, AggrEnv)
    \/ Return(1)

AggrSpec == Init /\ [][NextAggr]_vars

\* a call of the policy's compress_image has returned a compressed image
AggrReturned(t) ==
    /\ fn[t] = AggrCompressImage
    /\ pc[t] = "ret"
    /\ result[t].data # NULL

\* the quality ceiling of the megapixel tiers: 85 above 16 megapixels, 90
\* above 8 megapixels, and no ceiling below
MegapixelCeiling(final_width, final_height) ==
    IF final_width * final_height > 16000000 THEN 85
    ELSE IF final_width * final_height > 8000000 THEN 90
    ELSE 100

\* C32, as stated: every result compress_image returns from its own body was
\* encoded at the lesser of the requested quality and the ceiling of the
\* tier of the image, and so never above that ceiling.
C32_AsStated ==
    \A t \in Threads :
       (AggrReturned(t) /\ BodyOf(t) = AggrCompressImage) =>
          h[t].encQ = Min(arg[t].quality,
                          MegapixelCeiling(loc[t].width, loc[t].height))

\* the first encoder call of a call of the policy's compress_image has been
\* made
AggrFirstEncoded(t) ==
    /\ fn[t] = AggrCompressImage
    /\ h[t].encodes = 1

\* C33, as stated: a call of compress_image on a file above 20MB is encoded
\* at no more than quality 40; above 15MB it is resized to a largest side of
\* 3000 and encoded at no more than 60; above 8MB to 4000 and 75; any other
\* file is resized only above 6000, to 6000, and encoded at no more than the
\* ceiling of its megapixel tier.
C33_AsStated ==
    \A t \in Threads :
       AggrFirstEncoded(t) =>
          LET fs == loc[t].file_size
              q == arg[t].quality
          IN  IF fs > 20000000
              THEN h[t].encQ = Min(q, 40)
              ELSE IF fs > 15000000
              THEN /\ h[t].resized /\ h[t].rscale.n = 3000
                   /\ h[t].encQ = Min(q, 60)
              ELSE IF fs > 8000000
              THEN /\ h[t].resized /\ h[t].rscale.n = 4000
                   /\ h[t].encQ = Min(q, 75)
              ELSE /\ h[t].resized => h[t].rscale.n = 6000
                   /\ h[t].encQ =
                        Min(q, MegapixelCeiling(loc[t].width, loc[t].height))

---------------------------------------------------------------------------
(* get_image_info against the sizing of compress_image *)

\* a call of get_image_info has returned
InfoReturned(t) == fn[t] = "get_image_info" /\ pc[t] = "ret"

\* ... and its image was decoded
InfoDecoded(t) == InfoReturned(t) /\ Len(h[t].refs) > 0

\* C34: get_image_info reports needs_resize = 1 exactly when the larger side
\* of the image is above 6000, then with the new_width and new_height that
\* compress_image computes for the image, and 0 with 0/0 otherwise; a call
\* that fails returns the all-zero record; and every call returns with no
\* image handle live and the mutex released.
C34_InfoMatchesCompress ==
    \A t \in Threads :
       InfoReturned(t) =>
          /\ LiveHandles(h[t]) = 0 /\ ~h[t].badUnref
          /\ vips_mutex = 0
          /\ ~InfoDecoded(t) => result[t] = Failure("get_image_info")
          /\ InfoDecoded(t) =>
                LET r == result[t]
                    p == CapPlan(loc[t].width, loc[t].height)
                IN  /\ r.width = loc[t].width /\ r.height = loc[t].height
                    /\ r.needs_resize \in {0, 1}
                    /\ r.needs_resize = 1 <=>
                          Max(loc[t].width, loc[t].height) > 6000
                    /\ r.needs_resize = 1 =>
                          /\ p.needs_resize = 1
                          /\ r.new_width = p.new_width
                          /\ r.new_height = p.new_height
                    /\ r.needs_resize = 0 =>
                          r.new_width = 0 /\ r.new_height = 0

\* C34, its case: get_image_info has returned for a 9000x6000 image, with
\* needs_resize = 1 and 6000x4000
C34_Witness ==
    \E t \in Threads :
       /\ InfoDecoded(t)
       /\ loc[t].width = 9000 /\ loc[t].height = 6000
       /\ result[t].needs_resize = 1
       /\ result[t].new_width = 6000 /\ result[t].new_height = 4000

\* C34, its other cases: a 6000x6000 image reported with needs_resize = 0
\* and 0/0, and a call whose decode failed
C34_WitnessNoResize ==
    \E t \in Threads :
       /\ InfoDecoded(t)
       /\ loc[t].width = 6000 /\ loc[t].height = 6000
       /\ result[t].needs_resize = 0 /\ result[t].new_width = 0

C34_WitnessFailure ==
    \E t \in Threads :
       /\ InfoReturned(t) /\ h[t].loads = 1 /\ ~InfoDecoded(t)
       /\ result[t] = Failure("get_image_info")

---------------------------------------------------------------------------
(* shutdown_vips against the entry points *)

\* C35, as stated: whatever the interleaving with shutdown_vips, a thread
\* about to run a codec operation finds the engine initialized: a thread
\* that has passed ensure_vips_initialized still finds vips_initialized = 1
\* once it holds vips_mutex and decodes.
C35_AsStated ==
    \A t \in Threads : pc[t] \in CodecPcs => vips_initialized = 1

---------------------------------------------------------------------------
(* Lock discipline *)

\* the positions at which a thread is about to call pthread_mutex_lock
LockPcs == { "ensure", "lock", "sd_lock" }

\* thread t does not hold the mutex where it is outside every locked
\* section: before a lock, and before and after a call
NotHeldOutside(t) ==
    pc[t] \in LockPcs \cup {"idle", "ret"} => vips_mutex # t

\* one step as seen from thread t's locks and unlocks
LockDisciplineStep(t) ==
    \* pthread_mutex_lock takes a free mutex, and only there is it taken
    /\ (pc[t] \in LockPcs /\ pc'[t] # pc[t]) =>
          vips_mutex = 0 /\ vips_mutex' = t /\ pc'[t] \in LockedPcs
    /\ (vips_mutex # t /\ vips_mutex' = t) => pc[t] \in LockPcs
    \* the locked section is left by one unlock of the mutex held, on every
    \* path, and the mutex is released nowhere else
    /\ (pc[t] \in LockedPcs /\ pc'[t] \notin LockedPcs) =>
          vips_mutex = t /\ vips_mutex' = 0
    /\ (vips_mutex = t /\ vips_mutex' # t) =>
          vips_mutex' = 0 /\ pc[t] \in LockedPcs /\ pc'[t] \notin LockedPcs

\* C36: every pthread_mutex_lock(&vips_mutex) is matched by exactly one
\* pthread_mutex_unlock on every return path, no thread locks the mutex
\* while it holds it, and no function returns holding it.
C36_LockDiscipline ==
    /\ [](\A t \in Threads : NotHeldOutside(t))
    /\ [][\A t \in Threads : LockDisciplineStep(t)]_vars

\* C36, its case: auto_compress_image has returned failure after encoder
\* calls, and the mutex is free
C36_Witness ==
    \E t \in Threads :
       /\ fn[t] = "auto_compress_image" /\ pc[t] = "ret"
       /\ h[t].encodes > 0
       /\ result[t] = FailResult
       /\ vips_mutex = 0

---------------------------------------------------------------------------
(* Enlargement *)

\* the entry points "for large images"
LargeFns ==
    { "compress_large_image", "compress_large_dslr_image",
      "compress_large_image_with_format",
      "compress_large_dslr_image_with_format" }

\* the call of thread t has had its image resized
Resized(t) == Decoded(t) /\ h[t].resized

\* C37, as stated: an entry point called without target dimensions never
\* enlarges the image: the entry points for large images resize by a scale
\* of at most 1.0 whatever the size of the source, and by 1.0 when its
\* larger side is at most 6000.
C37_AsStated ==
    \A t \in Threads :
       /\ (Resized(t) /\ (NoTarget(t) \/ fn[t] \in LargeFns
                            \/ fn[t] = "fast_webp_compress")) =>
             ~RatioLess(Ratio(1, 1), h[t].rscale)
       /\ (Resized(t) /\ fn[t] \in LargeFns
             /\ Max(loc[t].width, loc[t].height) <= max_dimension) =>
             RatioEq(h[t].rscale, Ratio(1, 1))

---------------------------------------------------------------------------
(* Encoder buffers *)

\* C38, as stated: when an entry point returns, every buffer an encoder has
\* handed back is the one returned in a success or has been freed once, on
\* every path: after an encoder failure or a zero size that left a buffer
\* as well, and in compress_large_image and compress_large_dslr_image too.
C38_AsStated ==
    \A t \in Threads :
       (fn[t] \in ResultFns /\ pc[t] = "ret") =>
          /\ ~h[t].doubleFree
          /\ IsSuccess(result[t]) => Cardinality(h[t].live) = 1
          /\ ~IsSuccess(result[t]) => h[t].live = {}

---------------------------------------------------------------------------
(* png_compressor.c: compress_to_png, compress_to_jpeg, png_write_to_memory *)

\* the most calls of png_write_to_memory libpng makes in one compress_to_png
MaxWrites == 4

\* SIZE_MAX / 2 where size_t has 32 bits
SIZE_MAX_HALF == 2147483647

\* the heap blocks of a call: buffer.data, row_pointers, and the buffer
\* tjCompress2 allocates
PngBufferBlock == 1

RowPointersBlock == 2

JpegBlock == 3

RawFns == { "compress_to_png", "compress_to_jpeg" }

\* PngResult result = {0, 0}; JpegResult result = {0, 0}
RawFailure == [data |-> NULL, length |-> 0]

\* the argument checks of compress_to_png and compress_to_jpeg; TRUE when
\* the call goes on
RawValidate(f, a) ==
    IF f = "compress_to_png"
    THEN /\ ~(a.raw_data = NULL \/ a.width <= 0 \/ a.height <= 0
                \/ (a.channels # 3 /\ a.channels # 4))
         /\ LET expected_size == a.width * a.height * a.channels
            IN  ~(expected_size = 0 \/ expected_size > SIZE_MAX_HALF)
    ELSE ~(a.raw_data = NULL \/ a.width <= 0 \/ a.height <= 0
             \/ a.quality < 1 \/ a.quality > 100)

\* a thread calls compress_to_png or compress_to_jpeg
RawCall(t, env) ==
    /\ pc[t] = "idle"
    /\ \E c \in env.calls :
         LET ok == RawValidate(c.fn, c.arg)
         IN  /\ fn' = [fn EXCEPT ![t] = c.fn]
             /\ arg' = [arg EXCEPT ![t] = c.arg]
             /\ pc' = [pc EXCEPT ![t] =
                         IF ~ok THEN "ret"
                         ELSE IF c.fn = "compress_to_png" THEN "p_create"
                         ELSE "j_init"]
             /\ loc' = [loc EXCEPT ![t] = NoLoc]
             /\ h' = [h EXCEPT ![t] = NoHist]
             /\ result' = [result EXCEPT ![t] = RawFailure]
    /\ UNCHANGED <<vips_mutex, vips_initialized>>

\* png_create_write_struct, png_create_info_struct, setjmp
PngCreate(t, env) ==
    /\ pc[t] = "p_create"
    /\ \E png_ok, info_ok \in BOOLEAN :
         IF png_ok /\ info_ok
         THEN Goto(t, "p_malloc", loc[t], h[t])
         ELSE Done(t, RawFailure, loc[t], h[t], env)
    /\ UNCHANGED <<vips_mutex, vips_initialized>>

\* PngBuffer buffer = {malloc(1024), 0, 1024}; png_set_write_fn, png_set_IHDR
\* and the compression settings, which write nothing
PngMalloc(t, env) ==
    /\ pc[t] = "p_malloc"
    /\ \E ok \in BOOLEAN :
         IF ok
         THEN Goto(t, "p_info",
                   [loc[t] EXCEPT !.png_buffer =
                      [data |-> << >>, size |-> 0, capacity |-> 1024]],
                   AllocBuffer(h[t], PngBufferBlock))
         ELSE Done(t, RawFailure, loc[t], h[t], env)
    /\ UNCHANGED <<vips_mutex, vips_initialized>>

\* bytes copied to the start of the buffer
PngWriteOffset_Start(buffer) == 0

\* memcpy(buffer->data + buffer->size, ...): where the bytes go
PngWriteOffset(buffer) == buffer.size

\* png_write_to_memory(png_ptr, data, length) on a PngBuffer.  The contents
\* of the buffer are the runs of bytes copied into it, each with its offset,
\* its length and a tag for the bytes; realloc keeps the contents.  The
\* result is the buffer after the call and whether png_error was raised.
\* (size + length) * 2 does not wrap: the buffer and the pixels it encodes
\* share one address space.
png_write_to_memory(buffer, tag, length, realloc_ok) ==
    LET grow == buffer.size + length > buffer.capacity
        new_capacity == (buffer.size + length) * 2
    IN  IF grow /\ ~realloc_ok
        THEN [buffer |-> buffer, error |-> TRUE]
        ELSE [buffer |->
                [data |-> Append(buffer.data,
                                 [off |-> PngWriteOffset(buffer),
                                  len |-> length, tag |-> tag]),
                 size |-> buffer.size + length,
                 capacity |-> IF grow THEN new_capacity
                              ELSE buffer.capacity],
              error |-> FALSE]

\* libpng writes a piece of the file: one call of png_write_to_memory, made
\* inside png_write_info (at "p_info") or inside png_write_image and
\* png_write_end (at "p_image").  When realloc fails the callback calls
\* png_error, which jumps to the setjmp branch of compress_to_png: the write
\* struct is destroyed, result.data is still NULL and nothing is freed, and
\* {NULL, 0} is returned.
PngWrite(t, env) ==
    /\ pc[t] \in {"p_info", "p_image"}
    /\ loc[t].png_calls < MaxWrites
    /\ \E length \in env.lengths, realloc_ok \in BOOLEAN :
         LET w == png_write_to_memory(loc[t].png_buffer,
                                      loc[t].png_calls + 1, length,
                                      realloc_ok)
             l == [loc[t] EXCEPT !.png_buffer = w.buffer,
                                 !.png_calls = @ + 1,
                                 !.png_length = length]
         IN  IF w.error
             THEN Done(t, RawFailure, l, h[t], env)
             ELSE Goto(t, pc[t], l, h[t])
    /\ UNCHANGED <<vips_mutex, vips_initialized>>

\* libpng itself raises png_error (png_set_IHDR, png_write_info,
\* png_write_image, png_write_end): the setjmp branch again
PngError(t, env) ==
    /\ pc[t] \in {"p_info", "p_image"}
    /\ Done(t, RawFailure, loc[t], h[t], env)
    /\ UNCHANGED <<vips_mutex, vips_initialized>>

\* png_write_info has returned, having written the signature and the header
PngInfoDone(t) ==
    /\ pc[t] = "p_info"
    /\ loc[t].png_calls >= 1
    /\ Goto(t, "p_rows", loc[t], h[t])
    /\ UNCHANGED <<vips_mutex, vips_initialized>>

\* row_pointers = malloc(sizeof(png_bytep) * height); when it fails the
\* write struct is destroyed and buffer.data freed
PngMallocRows(t, env) ==
    /\ pc[t] = "p_rows"
    /\ \E ok \in BOOLEAN :
         IF ok
         THEN Goto(t, "p_image", loc[t], AllocBuffer(h[t], RowPointersBlock))
         ELSE Done(t, RawFailure, loc[t],
                   FreeBuffer(h[t], PngBufferBlock), env)
    /\ UNCHANGED <<vips_mutex, vips_initialized>>

\* png_write_image and png_write_end have returned: free(row_pointers),
\* png_destroy_write_struct, result.data = buffer.data,
\* result.length = buffer.size
PngImageDone(t, env) ==
    /\ pc[t] = "p_image"
    /\ Done(t, [data |-> "buffer", length |-> loc[t].png_buffer.size],
            loc[t], FreeBuffer(h[t], RowPointersBlock), env)
    /\ UNCHANGED <<vips_mutex, vips_initialized>>

\* tjhandle handle = tjInitCompress()
JpegInit(t, env) ==
    /\ pc[t] = "j_init"
    /\ \E ok \in BOOLEAN :
         IF ok THEN Goto(t, "j_compress", loc[t], h[t])
         ELSE Done(t, RawFailure, loc[t], h[t], env)
    /\ UNCHANGED <<vips_mutex, vips_initialized>>

\* tjCompress2(..., &result.data, &jpeg_size, ...): success with a buffer
\* gives the result its length; otherwise a buffer left behind is freed with
\* tjFree and the result is {NULL, 0}; tjDestroy(handle)
JpegCompress(t, env) ==
    /\ pc[t] = "j_compress"
    /\ \E o \in EncodeOutcomes(env.sizes) :
         LET data == IF o.buf THEN JpegBlock ELSE 0
             hh == AllocBuffer(h[t], data)
         IN  IF o.rc = 0 /\ o.buf
             THEN Done(t, [data |-> "buffer", length |-> o.size],
                       loc[t], hh, env)
             ELSE Done(t, RawFailure, loc[t], FreeBuffer(hh, data), env)
    /\ UNCHANGED <<vips_mutex, vips_initialized>>

\* lengths of the pieces libpng hands to png_write_to_memory: the 8 bytes of
\* the signature, lengths that fill the first 1024 bytes exactly and by one
\* byte too many, and a long one
PngLengths == { 8, 1016, 1017, 3000 }

\* calls of the two encoders with valid and invalid arguments
RawEnv ==
    [calls |->
       { [fn |-> "compress_to_png",
          arg |-> [NoArg EXCEPT !.raw_data = p, !.width = w, !.height = hg,
                                !.channels = c]] :
            p \in {NULL, "pixels"}, w \in {0, 2}, hg \in {-1, 2},
            c \in {1, 3, 4} }
       \cup
       { [fn |-> "compress_to_jpeg",
          arg |-> [NoArg EXCEPT !.raw_data = p, !.width = w, !.height = hg,
                                !.quality = q]] :
            p \in {NULL, "pixels"}, w \in {0, 2}, hg \in {-1, 2},
            q \in {0, 1, 100, 101} },
     lengths |-> PngLengths,
     sizes |-> { 2048 },
     observe |-> TRUE]

\* one caller of compress_to_png and compress_to_jpeg
NextRaw ==
    \/ RawCall(1, RawEnv)
    \/ PngCreate(1, RawEnv)
    \/ PngMalloc(1, RawEnv)
    \/ PngWrite(1, RawEnv)
    \/ PngError(1, RawEnv)
    \/ PngInfoDone(1)
    \/ PngMallocRows(1, RawEnv)
    \/ PngImageDone(1, RawEnv)
    \/ JpegInit(1, RawEnv)
    \/ JpegCompress(1, RawEnv)
    \/ Return(1)

RawSpec == Init /\ [][NextRaw]_vars

\* a call of compress_to_png or compress_to_jpeg has returned
RawReturned(t) == fn[t] \in RawFns /\ pc[t] = "ret"

\* C39, as stated: compress_to_png and compress_to_jpeg return {NULL, 0} for
\* invalid input and on every later failure, and when compress_to_png fails,
\* an encoder error after the output buffer was allocated included, the
\* buffer has been freed.
C39_AsStated ==
    \A t \in Threads :
       RawReturned(t) =>
          /\ ~RawValidate(fn[t], arg[t]) => result[t] = RawFailure
          /\ result[t].data = NULL => result[t] = RawFailure
          /\ (fn[t] = "compress_to_png" /\ result[t].data = NULL) =>
                PngBufferBlock \notin h[t].live

\* the tag of the byte at offset i of the contents: that of the last run
\* copied over it, 0 where nothing was copied
Byte(data, i) ==
    LET covering == { k \in 1..Len(data) :
                        data[k].off <= i /\ i < data[k].off + data[k].len }
    IN  IF covering = {} THEN 0
        ELSE data[CHOOSE k \in covering : \A j \in covering : j <= k].tag

\* the offsets below n at which a run of one of the two contents begins or
\* ends: between two of them the bytes of both are constant
Breaks(a, b, n) ==
    { i \in {0} \cup UNION { {r.off, r.off + r.len} :
                               r \in { a[k] : k \in 1..Len(a) }
                                     \cup { b[k] : k \in 1..Len(b) } } :
        i < n }

\* the first n bytes of the two contents are the same
SameBytes(a, b, n) == \A i \in Breaks(a, b, n) : Byte(a, i) = Byte(b, i)

\* one step as seen from a call of png_write_to_memory by thread t
WriteStep(t) ==
    LET b == loc[t].png_buffer
        nb == loc'[t].png_buffer
        length == loc'[t].png_length
    IN  loc'[t].png_calls = loc[t].png_calls + 1 =>
           IF pc'[t] = "ret"
           THEN \* realloc failed
                /\ nb = b
                /\ b.size + length > b.capacity
           ELSE /\ nb.size = b.size + length
                /\ nb.size <= nb.capacity
                /\ nb.capacity >= b.capacity
                /\ SameBytes(b.data, nb.data, b.size)
                /\ \A i \in {b.size, nb.size - 1} :
                      Byte(nb.data, i) = loc'[t].png_calls

\* C40: over any sequence of calls of png_write_to_memory the buffer keeps
\* size <= capacity, each call that succeeds adds exactly the length written
\* to size and leaves the bytes written before as they were, and a call
\* whose realloc fails leaves size, capacity and data as they were.
C40_WriteToMemory ==
    /\ [](\A t \in Threads :
             loc[t].png_buffer.size <= loc[t].png_buffer.capacity)
    /\ [][\A t \in Threads : WriteStep(t)]_vars

\* C40, its case: the buffer has grown by realloc to (8 + 1017) * 2 bytes
\* for the second call, and a third call has added 8 bytes after the 1025
C40_Witness ==
    \E t \in Threads :
       /\ fn[t] = "compress_to_png"
       /\ loc[t].png_calls = 3
       /\ loc[t].png_buffer.capacity = 2050
       /\ loc[t].png_buffer.size = 1033
       /\ Byte(loc[t].png_buffer.data, 8) = 2

\* C40, its other case: a call whose realloc failed, after two that
\* succeeded
C40_WitnessFailure ==
    \E t \in Threads :
       /\ RawReturned(t)
       /\ loc[t].png_calls = 3
       /\ loc[t].png_buffer.size = 1024
       /\ loc[t].png_buffer.capacity = 1024
       /\ result[t] = RawFailure

=============================================================================
